---- MODULE Spec2Model ----
(***************************************************************************)
(* A model of mock-aws-nodejs' in-memory S3 emulation: the store           *)
(* (S3MockStore: buckets, objects, multipart uploads) and the operation    *)
(* handlers that translate structured requests into store calls.           *)
(*                                                                         *)
(* Conventions.  Strings are TLA+ strings (Len, \o and SubSeq work on      *)
(* them).  A Buffer is a sequence of byte values.  A JavaScript object     *)
(* with optional properties is a record that has, or has not, the field;   *)
(* a property that is present with the value undefined holds the value     *)
(* `undefined` below.  Dates are numbers of milliseconds.                  *)
(***************************************************************************)
EXTENDS Integers, Sequences, FiniteSets, TLC

VARIABLES
    buckets,            \* S3MockStore.buckets: name -> StoredBucket
    objects,            \* S3MockStore.objects: name -> (key -> StoredObject)
    multipartUploads,   \* S3MockStore.multipartUploads: uploadId -> MultipartUpload
    uuidCount,          \* how many upload ids randomUUID() has produced
    now,                \* the clock read by `new Date()`
    request,            \* the last request sent: [op, input]
    response,           \* what its handler returned or threw
    changed,            \* whether that handler changed the store
    lastWrite,          \* history: (bucket, key) -> the latest live write
    replaced,           \* history: the operation whose write that request replaced
    handlers,           \* MockClient.defaultHandlers: the commands that have one
    commandHandlers,    \* MockClient.commandHandlers: command -> MockedCommandBehavior
    calls,              \* MockClient.calls: the CommandCall of every command sent
    draining,           \* the handlers suspended in `for await (const chunk of Body)`:
                        \* invocation -> [op, input, chunks], the chunks read so far
    isInstalled,        \* MockClient.isInstalled
    originalSend,       \* MockClient.originalSend: the send install replaced, or "null"
    clientInstance,     \* MockClient.clientInstance: the client of install, or "null"
    send                \* client -> the function that is the client's send property

storeVars == <<buckets, objects, multipartUploads, uuidCount>>
vars == <<buckets, objects, multipartUploads, uuidCount, now, request, response,
          changed, lastWrite, replaced, handlers, commandHandlers,
          calls, draining,
                   isInstalled, originalSend, clientInstance, send>>

(***************************************************************************)
(* JavaScript values and string primitives                                 *)
(***************************************************************************)
undefined == "undefined"

Has(r, f) == f \in DOMAIN r
Prop(r, f) == IF f \in DOMAIN r THEN r[f] ELSE undefined
\* !x for a string-valued property: undefined and '' are falsy
Falsy(r, f) == ~Has(r, f) \/ r[f] = undefined \/ r[f] = ""

MinOf(S) == CHOOSE x \in S : \A y \in S : x <= y
Lesser(a, b) == IF a <= b THEN a ELSE b

charAt(s, i) == SubSeq(s, i, i)
\* String.prototype.startsWith
startsWith(s, p) == Len(p) <= Len(s) /\ SubSeq(s, 1, Len(p)) = p
\* String.prototype.slice(from) and slice(from, to), 0-based, to exclusive
sliceFrom(s, from) == SubSeq(s, from + 1, Len(s))
sliceTo(s, from, to) == SubSeq(s, from + 1, Lesser(to, Len(s)))
\* String.prototype.indexOf: 0-based position of the first occurrence, or -1
indexOf(s, d) ==
    LET hits == {i \in 0..(Len(s) - Len(d)) : SubSeq(s, i + 1, i + Len(d)) = d}
    IN  IF hits = {} THEN -1 ELSE MinOf(hits)

\* UTF-16 code unit of a character (all characters used are ASCII, so it is
\* also the character's one-byte UTF-8 encoding)
CodeUnit(c) ==
    CASE c = "%" -> 37 [] c = "-" -> 45 [] c = "/" -> 47
      [] c = "0" -> 48 [] c = "1" -> 49 [] c = "2" -> 50 [] c = "3" -> 51
      [] c = "4" -> 52 [] c = "5" -> 53 [] c = "6" -> 54 [] c = "7" -> 55
      [] c = "8" -> 56 [] c = "9" -> 57 [] c = "=" -> 61
      [] c = "A" -> 65 [] c = "B" -> 66 [] c = "F" -> 70
      [] c = "a" -> 97 [] c = "b" -> 98 [] c = "c" -> 99
      [] c = "e" -> 101 [] c = "i" -> 105 [] c = "s" -> 115
      [] c = "t" -> 116 [] c = "x" -> 120 [] c = "y" -> 121

\* a < b for strings: the relational operators compare code unit by code unit
jsLess(a, b) ==
    LET n == Lesser(Len(a), Len(b))
        diff == {i \in 1..n : charAt(a, i) # charAt(b, i)}
    IN  IF diff = {} THEN Len(a) < Len(b)
        ELSE CodeUnit(charAt(a, MinOf(diff))) < CodeUnit(charAt(b, MinOf(diff)))
jsGreater(a, b) == jsLess(b, a)

\* String.prototype.localeCompare (ICU root collation): strings are compared
\* first by primary weights, where punctuation sorts before digits, digits
\* before letters and a letter's two cases weigh the same; strings equal at
\* that level are ordered by case, lower case first.
PrimaryWeight(c) ==
    CASE c = "%" -> 3 [] c = "-" -> 1 [] c = "/" -> 2 [] c = "=" -> 4
      [] c = "0" -> 10 [] c = "1" -> 11 [] c = "2" -> 12 [] c = "3" -> 13
      [] c = "4" -> 14 [] c = "5" -> 15 [] c = "6" -> 16 [] c = "7" -> 17
      [] c = "8" -> 18 [] c = "9" -> 19
      [] c \in {"a", "A"} -> 30 [] c \in {"b", "B"} -> 31 [] c = "c" -> 32
      [] c = "e" -> 33 [] c = "F" -> 34 [] c = "i" -> 35 [] c = "s" -> 36
      [] c = "t" -> 37 [] c = "x" -> 38 [] c = "y" -> 39
IsUpper(c) == c \in {"A", "B", "F"}
localeCompare(a, b) ==
    LET n == Lesser(Len(a), Len(b))
        pdiff == {i \in 1..n : PrimaryWeight(charAt(a, i)) # PrimaryWeight(charAt(b, i))}
        cdiff == {i \in 1..n : IsUpper(charAt(a, i)) # IsUpper(charAt(b, i))}
    IN  IF pdiff # {}
        THEN IF PrimaryWeight(charAt(a, MinOf(pdiff))) < PrimaryWeight(charAt(b, MinOf(pdiff)))
             THEN -1 ELSE 1
        ELSE IF Len(a) # Len(b) THEN (IF Len(a) < Len(b) THEN -1 ELSE 1)
        ELSE IF cdiff = {} THEN 0
        ELSE IF IsUpper(charAt(b, MinOf(cdiff))) THEN -1 ELSE 1

\* Buffer.from(text, 'utf-8')
utf8(text) == [i \in 1..Len(text) |-> CodeUnit(charAt(text, i))]

\* the hex MD5 digest of a buffer, as an injective function of the bytes
md5hex(data) == "md5:" \o ToString(data)
\* a variant that leaves the quotes out of the ETag
BareDigest(data) == md5hex(data)

\* `"${createHash('md5').update(data).digest('hex')}"`
QuotedDigest(data) == "\"" \o md5hex(data) \o "\""

(***************************************************************************)
(* core/types.ts: structured errors and response metadata                  *)
(***************************************************************************)
createAwsError(name, message, httpStatusCode) ==
    [kind |-> "AwsError", name |-> name, Code |-> name, message |-> message,
     fault |-> "client", httpStatusCode |-> httpStatusCode]

\* a generic Error thrown by the store and not translated by the handler
GenericError(message) == [kind |-> "Error", message |-> message]

\* createResponseMetadata(): a success response starts from status 200
Ok(fields) == [kind |-> "Output", httpStatusCode |-> 200] @@ fields
NotModified == [kind |-> "Output", httpStatusCode |-> 304]

MissingKey(field) ==
    createAwsError("MissingRequiredParameter",
                   "Missing required key '" \o field \o "' in params", 400)
MissingParameters ==
    createAwsError("MissingRequiredParameter", "Missing required parameters", 400)
NoSuchBucket(b) ==
    createAwsError("NoSuchBucket", "The specified bucket does not exist: " \o b, 404)
NoSuchKey(k) ==
    createAwsError("NoSuchKey", "The specified key does not exist: " \o k, 404)
PreconditionFailed ==
    createAwsError("PreconditionFailed",
                   "At least one of the pre-conditions you specified did not hold", 412)

(***************************************************************************)
(* S3MockStore.  A store value s is the record of the store's three maps   *)
(* and the count of generated upload ids.  A method that can throw returns *)
(* [threw, message] or [threw |-> FALSE, s, value].                        *)
(***************************************************************************)
TheStore ==
    [buckets |-> buckets, objects |-> objects,
     multipartUploads |-> multipartUploads, uuidCount |-> uuidCount]
EmptyStore ==
    [buckets |-> << >>, objects |-> << >>, multipartUploads |-> << >>, uuidCount |-> 0]

Throw(message) == [threw |-> TRUE, message |-> message]
Return(s, value) == [threw |-> FALSE, s |-> s, value |-> value]

\* Map.set and Map.delete on a function
MapSet(m, k, v) == [x \in (DOMAIN m) \cup {k} |-> IF x = k THEN v ELSE m[x]]
MapDelete(m, k) == [x \in (DOMAIN m) \ {k} |-> m[x]]

bucketExists(s, name) == name \in DOMAIN s.buckets

\* getDefaultBucketAcl: the owner and the grants of a canned ACL
getDefaultBucketAcl(cannedAcl) ==
    LET owner == <<"CanonicalUser", "default-owner-id", "FULL_CONTROL">>
        allRead == <<"Group", "global/AllUsers", "READ">>
        allWrite == <<"Group", "global/AllUsers", "WRITE">>
        authRead == <<"Group", "global/AuthenticatedUsers", "READ">>
    IN  [Owner |-> "default-owner-id",
         Grants |-> CASE cannedAcl = "public-read" -> <<owner, allRead>>
                      [] cannedAcl = "public-read-write" -> <<owner, allRead, allWrite>>
                      [] cannedAcl = "authenticated-read" -> <<owner, authRead>>
                      [] OTHER -> <<owner>>]

createBucket(s, name, region, acl, t) ==
    IF name \in DOMAIN s.buckets
    THEN Throw("Bucket already exists: " \o name)
    ELSE LET bucket == [name |-> name, creationDate |-> t, region |-> region,
                        configuration |->
                            IF acl = undefined \/ acl = "" THEN << >>
                            ELSE [acl |-> getDefaultBucketAcl(acl)]]
         IN  Return([s EXCEPT !.buckets = MapSet(s.buckets, name, bucket),
                              !.objects = MapSet(s.objects, name, << >>)],
                    bucket)

\* a variant that deletes the bucket with the objects it holds
deleteBucketForce(s, name) ==
    Return([s EXCEPT !.objects = MapDelete(s.objects, name),
                     !.buckets = MapDelete(s.buckets, name)],
           name \in DOMAIN s.buckets)

\* a variant that leaves the object map of the bucket behind
deleteBucketKeepingMap(s, name) ==
    IF name \in DOMAIN s.objects /\ DOMAIN s.objects[name] # {}
    THEN Throw("Bucket is not empty: " \o name)
    ELSE Return([s EXCEPT !.buckets = MapDelete(s.buckets, name)],
                name \in DOMAIN s.buckets)

deleteBucket(s, name) ==
    IF name \in DOMAIN s.objects /\ DOMAIN s.objects[name] # {}
    THEN Throw("Bucket is not empty: " \o name)
    ELSE Return([s EXCEPT !.objects = MapDelete(s.objects, name),
                          !.buckets = MapDelete(s.buckets, name)],
                name \in DOMAIN s.buckets)

\* a variant that makes the bucket anew each time
ensureBucketAnew(s, name, t) ==
    LET bucket == [name |-> name, creationDate |-> t, region |-> undefined,
                   configuration |-> << >>]
    IN  Return([s EXCEPT !.buckets = MapSet(s.buckets, name, bucket),
                         !.objects = IF name \in DOMAIN s.objects THEN s.objects
                                     ELSE MapSet(s.objects, name, << >>)],
               bucket)

ensureBucket(s, name, t) ==
    IF name \notin DOMAIN s.buckets
    THEN createBucket(s, name, undefined, undefined, t)
    ELSE Return(s, s.buckets[name])

\* the StoredObject literal of putObject
NewObject(key, body, options, t) ==
    [key |-> key,
     body |-> body,
     etag |-> QuotedDigest(body),
     lastModified |-> t,
     contentLength |-> Len(body),
     contentType |-> Prop(options, "contentType"),
     metadata |-> Prop(options, "metadata"),
     storageClass |-> IF Falsy(options, "storageClass") THEN "STANDARD"
                      ELSE options.storageClass,
     tags |-> Prop(options, "tags")]

\* a variant that fills what the options leave undefined from the object
\* already stored at the key
putObjectMerging(s, bucket, key, body, options, t) ==
    LET e == ensureBucket(s, bucket, t)
        fresh == NewObject(key, body, options, t)
        old == e.s.objects[bucket][key]
        object == IF key \notin DOMAIN e.s.objects[bucket] THEN fresh
                  ELSE [fresh EXCEPT
                          !.contentType = IF @ = undefined THEN old.contentType ELSE @,
                          !.metadata = IF @ = undefined THEN old.metadata ELSE @]
    IN  Return([e.s EXCEPT !.objects[bucket] = MapSet(@, key, object)], object)

putObject(s, bucket, key, body, options, t) ==
    LET e == ensureBucket(s, bucket, t)
    IN  IF bucket \notin DOMAIN e.s.objects
        THEN Throw("Bucket does not exist: " \o bucket)
        ELSE LET object == NewObject(key, body, options, t)
             IN  Return([e.s EXCEPT !.objects[bucket] = MapSet(@, key, object)], object)

objectExists(s, bucket, key) ==
    bucket \in DOMAIN s.objects /\ key \in DOMAIN s.objects[bucket]

\* getObject: the stored object; callers test objectExists for `undefined`
getObject(s, bucket, key) == s.objects[bucket][key]

\* a variant that empties the bucket of the key
deleteObjectWhole(s, bucket, key) ==
    IF bucket \notin DOMAIN s.objects
    THEN s
    ELSE [s EXCEPT !.objects[bucket] = << >>]

deleteObject(s, bucket, key) ==
    IF bucket \notin DOMAIN s.objects
    THEN s
    ELSE [s EXCEPT !.objects[bucket] = MapDelete(@, key)]

\* a variant that forgets the buckets and the objects and keeps the uploads
resetKeepingUploads(s) == [s EXCEPT !.buckets = << >>, !.objects = << >>]

reset(s) == [s EXCEPT !.buckets = << >>, !.objects = << >>, !.multipartUploads = << >>]

\* Array.prototype.sort() over distinct strings: in the order of their code units
sortDefault(S) ==
    [i \in 1..Cardinality(S) |->
        CHOOSE x \in S : Cardinality({y \in S : jsLess(y, x)}) = i - 1]

\* .sort((a, b) => a.key.localeCompare(b.key)) over distinct keys
sortLocale(S) ==
    [i \in 1..Cardinality(S) |->
        CHOOSE x \in S : Cardinality({y \in S : localeCompare(y, x) < 0}) = i - 1]

\* .sort((a, b) => a.partNumber - b.partNumber) over distinct numbers
sortNumbers(S) ==
    [i \in 1..Cardinality(S) |->
        CHOOSE x \in S : Cardinality({y \in S : y < x}) = i - 1]
SeqRange(q) == {q[i] : i \in 1..Len(q)}
\* the elements of q that satisfy Keep, in q's order
RECURSIVE SelectFrom(_, _)
SelectFrom(q, Keep) ==
    IF q = << >> THEN << >>
    ELSE (IF Head(q) \in Keep THEN <<Head(q)>> ELSE << >>) \o SelectFrom(Tail(q), Keep)
\* Array.prototype.slice(0, n)
Take(q, n) == SubSeq(q, 1, Lesser(n, Len(q)))

\* listObjects: "Get all matching objects": the matching keys, sorted by
\* (a, b) => a.key.localeCompare(b.key)
MatchingKeys(s, bucket, prefix) ==
    sortLocale({k \in DOMAIN s.objects[bucket] : startsWith(k, prefix)})

\* listObjects: "Apply startAfter or continuationToken": from the first key
\* that is > startKey on; nothing when there is none
DropThroughStartKey(keys, startKey) ==
    LET later == {i \in 1..Len(keys) : jsGreater(keys[i], startKey)}
    IN  IF later = {} THEN << >> ELSE SubSeq(keys, MinOf(later), Len(keys))

\* a variant that ends the common prefix before the delimiter
CommonPrefixOfBare(key, prefix, delimiter) ==
    LET keyAfterPrefix == sliceFrom(key, Len(prefix))
        delimiterIndex == indexOf(keyAfterPrefix, delimiter)
    IN  IF delimiterIndex # -1
        THEN prefix \o sliceTo(keyAfterPrefix, 0, delimiterIndex)
        ELSE undefined

\* listObjects: "Handle delimiter": the common prefix a key folds into, or
\* undefined when the key is a direct object
CommonPrefixOf(key, prefix, delimiter) ==
    LET keyAfterPrefix == sliceFrom(key, Len(prefix))
        delimiterIndex == indexOf(keyAfterPrefix, delimiter)
    IN  IF delimiterIndex # -1
        THEN prefix \o sliceTo(keyAfterPrefix, 0, delimiterIndex + 1)
        ELSE undefined

\* listObjects: "Apply maxKeys limit"
Truncate(filtered, maxKeys) ==
    LET isTruncated == Len(filtered) > maxKeys
        result == Take(filtered, maxKeys)
    IN  [keys |-> result,
         isTruncated |-> isTruncated,
         nextContinuationToken |->
            IF isTruncated /\ Len(result) > 0 THEN result[Len(result)] ELSE undefined]

DefaultMaxKeys == 1000

\* listObjects(bucket, options): options has prefix, delimiter, startAfter,
\* continuationToken (strings or undefined) and maxKeys when given
listObjects(s, bucket, options) ==
    IF bucket \notin DOMAIN s.objects
    THEN Throw("Bucket does not exist: " \o bucket)
    ELSE LET prefix == IF Prop(options, "prefix") = undefined THEN "" ELSE options.prefix
             delimiter == Prop(options, "delimiter")
             maxKeys == IF Has(options, "maxKeys") THEN options.maxKeys ELSE DefaultMaxKeys
             startKey == IF Falsy(options, "continuationToken")
                         THEN Prop(options, "startAfter")
                         ELSE options.continuationToken
             sorted == MatchingKeys(s, bucket, prefix)
             allObjects == IF startKey = undefined \/ startKey = "" THEN sorted
                           ELSE DropThroughStartKey(sorted, startKey)
             folded == IF delimiter = undefined \/ delimiter = "" THEN {}
                       ELSE {CommonPrefixOf(allObjects[i], prefix, delimiter) :
                                i \in 1..Len(allObjects)} \ {undefined}
             filtered == IF delimiter = undefined \/ delimiter = "" THEN allObjects
                         ELSE SelectFrom(allObjects,
                                {k \in SeqRange(allObjects) :
                                    CommonPrefixOf(k, prefix, delimiter) = undefined})
             cut == Truncate(filtered, maxKeys)
         IN  Return(s, [objects |-> [i \in 1..Len(cut.keys) |-> s.objects[bucket][cut.keys[i]]],
                        commonPrefixes |-> sortDefault(folded),
                        isTruncated |-> cut.isTruncated,
                        nextContinuationToken |-> cut.nextContinuationToken])

\* the descriptive properties of a stored object that putObject reads from
\* its options
DescriptiveProps(object) ==
    [contentType |-> object.contentType, metadata |-> object.metadata,
     storageClass |-> object.storageClass, tags |-> object.tags]

\* a variant that stores the source object as it is under the new key
copyObjectVerbatim(s, sourceBucket, sourceKey, destBucket, destKey, options, t) ==
    IF ~objectExists(s, sourceBucket, sourceKey)
    THEN Throw("Source object does not exist: " \o sourceBucket \o "/" \o sourceKey)
    ELSE LET sourceObject == getObject(s, sourceBucket, sourceKey)
             e == ensureBucket(s, destBucket, t)
         IN  Return([e.s EXCEPT !.objects[destBucket] = MapSet(@, destKey, sourceObject)],
                    sourceObject)

\* copyObject: putObject(dest, source.body, {...sourceObject, ...options});
\* a property of options wins even when its value is undefined
copyObject(s, sourceBucket, sourceKey, destBucket, destKey, options, t) ==
    IF ~objectExists(s, sourceBucket, sourceKey)
    THEN Throw("Source object does not exist: " \o sourceBucket \o "/" \o sourceKey)
    ELSE LET sourceObject == getObject(s, sourceBucket, sourceKey)
         IN  putObject(s, destBucket, destKey, sourceObject.body,
                       options @@ DescriptiveProps(sourceObject), t)

\* randomUUID(): the n-th identifier generated; no two are equal
UploadId(n) == "upload-" \o ToString(n)

createMultipartUpload(s, bucket, key, options, t) ==
    LET e == ensureBucket(s, bucket, t)
        uploadId == UploadId(s.uuidCount + 1)
        upload == options @@ [uploadId |-> uploadId, bucket |-> bucket, key |-> key,
                              initiated |-> t, parts |-> << >>]
    IN  Return([e.s EXCEPT !.uuidCount = @ + 1,
                           !.multipartUploads = MapSet(@, uploadId, upload)],
               upload)

\* a variant that keeps the part already stored under the number
uploadPartKeeping(s, uploadId, partNumber, data, t) ==
    IF uploadId \notin DOMAIN s.multipartUploads
    THEN Throw("Multipart upload not found: " \o uploadId)
    ELSE LET part == [partNumber |-> partNumber, etag |-> QuotedDigest(data),
                      size |-> Len(data), data |-> data, lastModified |-> t]
         IN  IF partNumber \in DOMAIN s.multipartUploads[uploadId].parts
             THEN Return(s, part)
             ELSE Return([s EXCEPT !.multipartUploads[uploadId].parts =
                                        MapSet(@, partNumber, part)],
                         part)

uploadPart(s, uploadId, partNumber, data, t) ==
    IF uploadId \notin DOMAIN s.multipartUploads
    THEN Throw("Multipart upload not found: " \o uploadId)
    ELSE LET part == [partNumber |-> partNumber, etag |-> QuotedDigest(data),
                      size |-> Len(data), data |-> data, lastModified |-> t]
         IN  Return([s EXCEPT !.multipartUploads[uploadId].parts =
                                    MapSet(@, partNumber, part)],
                    part)

\* a variant that verifies the part numbers and not the ETags
RECURSIVE VerifyPartsLax(_, _)
VerifyPartsLax(upload, parts) ==
    IF parts = << >> THEN undefined
    ELSE IF ~Has(Head(parts), "PartNumber")
            \/ Head(parts).PartNumber \notin DOMAIN upload.parts
    THEN "Part " \o (IF Has(Head(parts), "PartNumber")
                      THEN ToString(Head(parts).PartNumber) ELSE undefined) \o " not found"
    ELSE VerifyPartsLax(upload, Tail(parts))

\* completeMultipartUpload: "Verify all parts exist and match ETags": the
\* message of the first failure in request order, or undefined
RECURSIVE VerifyParts(_, _)
VerifyParts(upload, parts) ==
    IF parts = << >> THEN undefined
    ELSE IF ~Has(Head(parts), "PartNumber")
            \/ Head(parts).PartNumber \notin DOMAIN upload.parts
    THEN "Part " \o (IF Has(Head(parts), "PartNumber")
                      THEN ToString(Head(parts).PartNumber) ELSE undefined) \o " not found"
    ELSE IF upload.parts[Head(parts).PartNumber].etag # Prop(Head(parts), "ETag")
    THEN "ETag mismatch for part " \o ToString(Head(parts).PartNumber)
    ELSE VerifyParts(upload, Tail(parts))

\* a variant that concatenates the parts by ascending part number
ConcatPartsSorted(upload, parts) ==
    LET numbers == sortNumbers({parts[i].PartNumber : i \in 1..Len(parts)})
        RECURSIVE Joined(_)
        Joined(q) == IF q = << >> THEN << >>
                     ELSE upload.parts[Head(q)].data \o Joined(Tail(q))
    IN  Joined(numbers)

\* Buffer.concat(orderedParts.map((p) => p.data))
RECURSIVE ConcatParts(_, _)
ConcatParts(upload, parts) ==
    IF parts = << >> THEN << >>
    ELSE upload.parts[Head(parts).PartNumber].data \o ConcatParts(upload, Tail(parts))

completeMultipartUpload(s, uploadId, parts, t) ==
    IF uploadId \notin DOMAIN s.multipartUploads
    THEN Throw("Multipart upload not found: " \o uploadId)
    ELSE LET upload == s.multipartUploads[uploadId]
             failure == VerifyParts(upload, parts)
             put == putObject(s, upload.bucket, upload.key, ConcatParts(upload, parts),
                              [metadata |-> Prop(upload, "metadata"),
                               contentType |-> Prop(upload, "contentType"),
                               storageClass |-> Prop(upload, "storageClass"),
                               tags |-> Prop(upload, "tags")], t)
         IN  IF failure # undefined THEN Throw(failure)
             ELSE IF put.threw THEN put
             ELSE Return([put.s EXCEPT !.multipartUploads = MapDelete(@, uploadId)],
                         put.value)

\* a variant that leaves the upload record in place
abortMultipartUploadKeeping(s, uploadId) == s

abortMultipartUpload(s, uploadId) ==
    [s EXCEPT !.multipartUploads = MapDelete(@, uploadId)]

\* listMultipartUploads: the upload ids of the bucket, in the order of the
\* Map, which is the order of creation
listMultipartUploads(s, bucket, options) ==
    LET created == [n \in 1..s.uuidCount |-> UploadId(n)]
        live == SelectFrom(created,
                    {u \in DOMAIN s.multipartUploads :
                        /\ s.multipartUploads[u].bucket = bucket
                        /\ (Falsy(options, "prefix")
                            \/ startsWith(s.multipartUploads[u].key, options.prefix))})
    IN  Take(live, IF Has(options, "maxUploads") /\ options.maxUploads # 0
                   THEN options.maxUploads ELSE 1000)

\* listParts: the part numbers, ascending, above the marker
listParts(s, uploadId, options) ==
    IF uploadId \notin DOMAIN s.multipartUploads
    THEN Throw("Multipart upload not found: " \o uploadId)
    ELSE LET all == DOMAIN s.multipartUploads[uploadId].parts
             kept == IF Has(options, "partNumberMarker") /\ options.partNumberMarker # 0
                     THEN {n \in all : n > options.partNumberMarker} ELSE all
         IN  Return(s, Take(sortNumbers(kept),
                            IF Has(options, "maxParts") /\ options.maxParts # 0
                            THEN options.maxParts ELSE 1000))

\* setObjectTags, deleteObjectTags: the one in-place change of an object
setObjectTags(s, bucket, key, tags) ==
    IF bucket \notin DOMAIN s.objects THEN Throw("Bucket does not exist: " \o bucket)
    ELSE IF key \notin DOMAIN s.objects[bucket] THEN Throw("Object does not exist: " \o key)
    ELSE Return([s EXCEPT !.objects[bucket][key].tags = tags], undefined)

deleteObjectTags(s, bucket, key) ==
    IF bucket \notin DOMAIN s.objects THEN Throw("Bucket does not exist: " \o bucket)
    ELSE IF key \notin DOMAIN s.objects[bucket] THEN Return(s, undefined)
    ELSE Return([s EXCEPT !.objects[bucket][key].tags = undefined], undefined)

(***************************************************************************)
(* Operation handlers.  A handler maps the store and the request's input   *)
(* to [s, response]: the store it leaves and what it returns or throws.    *)
(***************************************************************************)
Reply(s, resp) == [s |-> s, response |-> resp]

\* "Convert Body to Buffer" of the PutObject and UploadPart handlers
RECURSIVE concatChunks(_)
concatChunks(chunks) ==
    IF chunks = << >> THEN << >>
    ELSE (IF Head(chunks).type = "string" THEN utf8(Head(chunks).text)
          ELSE Head(chunks).bytes) \o concatChunks(Tail(chunks))

toBuffer(input) ==
    IF ~Has(input, "Body") THEN << >>
    ELSE CASE input.Body.type = "Buffer" -> input.Body.bytes
           [] input.Body.type = "string" -> utf8(input.Body.text)
           [] input.Body.type = "Uint8Array" -> input.Body.bytes
           [] input.Body.type = "Readable" -> concatChunks(input.Body.chunks)

PutObjectHandler(s, input, t) ==
    IF Falsy(input, "Bucket") THEN Reply(s, MissingKey("Bucket"))
    ELSE IF Falsy(input, "Key") THEN Reply(s, MissingKey("Key"))
    ELSE LET r == putObject(s, input.Bucket, input.Key, toBuffer(input),
                            [contentType |-> Prop(input, "ContentType"),
                             metadata |-> Prop(input, "Metadata"),
                             storageClass |-> Prop(input, "StorageClass")], t)
         IN  IF r.threw THEN Reply(s, GenericError(r.message))
             ELSE Reply(r.s, Ok([ETag |-> r.value.etag]))

\* \d, \d* and parseInt(.., 10) on the groups of a Range pattern
IsDigit(c) == c \in {"0", "1", "2", "3", "4", "5", "6", "7", "8", "9"}
AllDigits(d) == \A i \in 1..Len(d) : IsDigit(charAt(d, i))
RECURSIVE parseInt(_)
parseInt(d) ==
    IF Len(d) = 0 THEN 0
    ELSE parseInt(SubSeq(d, 1, Len(d) - 1)) * 10 + (CodeUnit(charAt(d, Len(d))) - 48)

\* Range.match(/^bytes=(\d*)-(\d*)$/): <<matched, group 1, group 2>>
rangeMatch(range) ==
    LET rest == sliceFrom(range, 6)
        dash == indexOf(rest, "-")
    IN  IF startsWith(range, "bytes=") /\ dash # -1
           /\ AllDigits(sliceTo(rest, 0, dash)) /\ AllDigits(sliceFrom(rest, dash + 1))
        THEN <<TRUE, sliceTo(rest, 0, dash), sliceFrom(rest, dash + 1)>>
        ELSE <<FALSE, "", "">>

\* a variant that slices up to the end byte and leaves it out
ApplyRangeExclusive(input, storedObject) ==
    LET whole == [body |-> storedObject.body,
                  contentLength |-> storedObject.contentLength,
                  contentRange |-> undefined]
        m == rangeMatch(input.Range)
        start == IF m[2] # "" THEN parseInt(m[2]) ELSE 0
        end == IF m[3] # ""
               THEN Lesser(parseInt(m[3]), storedObject.contentLength - 1)
               ELSE storedObject.contentLength - 1
    IN  IF Falsy(input, "Range") THEN whole
        ELSE IF ~m[1] THEN whole
        ELSE IF start <= end /\ start < storedObject.contentLength
        THEN [body |-> SubSeq(storedObject.body, start + 1, end),
              contentLength |-> Len(SubSeq(storedObject.body, start + 1, end)),
              contentRange |-> "bytes " \o ToString(start) \o "-" \o ToString(end)
                               \o "/" \o ToString(storedObject.contentLength)]
        ELSE whole

\* "Handle range requests": [body, contentLength, contentRange]
ApplyRange(input, storedObject) ==
    LET whole == [body |-> storedObject.body,
                  contentLength |-> storedObject.contentLength,
                  contentRange |-> undefined]
        m == rangeMatch(input.Range)
        start == IF m[2] # "" THEN parseInt(m[2]) ELSE 0
        end == IF m[3] # ""
               THEN Lesser(parseInt(m[3]), storedObject.contentLength - 1)
               ELSE storedObject.contentLength - 1
    IN  IF Falsy(input, "Range") THEN whole
        ELSE IF ~m[1] THEN whole
        ELSE IF start <= end /\ start < storedObject.contentLength
        THEN [body |-> SubSeq(storedObject.body, start + 1, end + 1),
              contentLength |-> Len(SubSeq(storedObject.body, start + 1, end + 1)),
              contentRange |-> "bytes " \o ToString(start) \o "-" \o ToString(end)
                               \o "/" \o ToString(storedObject.contentLength)]
        ELSE whole

\* the descriptive fields GetObject and HeadObject copy into the response
ObjectFields(storedObject) ==
    [ContentType |-> storedObject.contentType,
     ETag |-> storedObject.etag,
     LastModified |-> storedObject.lastModified,
     Metadata |-> storedObject.metadata,
     StorageClass |-> storedObject.storageClass]

\* a variant whose IfMatch test is inverted
GetObjectConditionsInverted(input, storedObject) ==
    IF ~Falsy(input, "IfMatch") /\ input.IfMatch = storedObject.etag
    THEN "412"
    ELSE IF ~Falsy(input, "IfNoneMatch") /\ input.IfNoneMatch = storedObject.etag
    THEN "304"
    ELSE IF Has(input, "IfModifiedSince")
            /\ storedObject.lastModified <= input.IfModifiedSince
    THEN "304"
    ELSE IF Has(input, "IfUnmodifiedSince")
            /\ storedObject.lastModified > input.IfUnmodifiedSince
    THEN "412"
    ELSE "pass"

\* the four conditional fields of GetObject, in the order the handler tests
\* them: "412", "304" or "pass"
GetObjectConditions(input, storedObject) ==
    IF ~Falsy(input, "IfMatch") /\ input.IfMatch # storedObject.etag
    THEN "412"
    ELSE IF ~Falsy(input, "IfNoneMatch") /\ input.IfNoneMatch = storedObject.etag
    THEN "304"
    ELSE IF Has(input, "IfModifiedSince")
            /\ storedObject.lastModified <= input.IfModifiedSince
    THEN "304"
    ELSE IF Has(input, "IfUnmodifiedSince")
            /\ storedObject.lastModified > input.IfUnmodifiedSince
    THEN "412"
    ELSE "pass"

GetObjectHandler(s, input) ==
    IF Falsy(input, "Bucket") THEN Reply(s, MissingKey("Bucket"))
    ELSE IF Falsy(input, "Key") THEN Reply(s, MissingKey("Key"))
    ELSE IF ~bucketExists(s, input.Bucket) THEN Reply(s, NoSuchBucket(input.Bucket))
    ELSE IF ~objectExists(s, input.Bucket, input.Key) THEN Reply(s, NoSuchKey(input.Key))
    ELSE LET storedObject == getObject(s, input.Bucket, input.Key)
             cond == GetObjectConditions(input, storedObject)
             ranged == ApplyRange(input, storedObject)
         IN  IF cond = "412" THEN Reply(s, PreconditionFailed)
             ELSE IF cond = "304" THEN Reply(s, NotModified)
             ELSE Reply(s, Ok([Body |-> ranged.body,
                               ContentLength |-> ranged.contentLength,
                               ContentRange |-> ranged.contentRange]
                              @@ ObjectFields(storedObject)))

\* a variant that tests IfUnmodifiedSince before IfModifiedSince
HeadObjectConditionsReordered(input, storedObject) ==
    IF ~Falsy(input, "IfMatch") /\ input.IfMatch # storedObject.etag
    THEN "412"
    ELSE IF ~Falsy(input, "IfNoneMatch") /\ input.IfNoneMatch = storedObject.etag
    THEN "304"
    ELSE IF Has(input, "IfUnmodifiedSince")
            /\ storedObject.lastModified > input.IfUnmodifiedSince
    THEN "412"
    ELSE IF Has(input, "IfModifiedSince")
            /\ storedObject.lastModified <= input.IfModifiedSince
    THEN "304"
    ELSE "pass"

\* the same four tests, as HeadObject writes them
HeadObjectConditions(input, storedObject) ==
    IF ~Falsy(input, "IfMatch") /\ input.IfMatch # storedObject.etag
    THEN "412"
    ELSE IF ~Falsy(input, "IfNoneMatch") /\ input.IfNoneMatch = storedObject.etag
    THEN "304"
    ELSE IF Has(input, "IfModifiedSince")
            /\ storedObject.lastModified <= input.IfModifiedSince
    THEN "304"
    ELSE IF Has(input, "IfUnmodifiedSince")
            /\ storedObject.lastModified > input.IfUnmodifiedSince
    THEN "412"
    ELSE "pass"

HeadObjectHandler(s, input) ==
    IF Falsy(input, "Bucket") THEN Reply(s, MissingKey("Bucket"))
    ELSE IF Falsy(input, "Key") THEN Reply(s, MissingKey("Key"))
    ELSE IF ~bucketExists(s, input.Bucket) THEN Reply(s, NoSuchBucket(input.Bucket))
    ELSE IF ~objectExists(s, input.Bucket, input.Key)
    THEN Reply(s, createAwsError("NotFound",
                      "The specified key does not exist: " \o input.Key, 404))
    ELSE LET storedObject == getObject(s, input.Bucket, input.Key)
             cond == HeadObjectConditions(input, storedObject)
         IN  IF cond = "412" THEN Reply(s, PreconditionFailed)
             ELSE IF cond = "304" THEN Reply(s, NotModified)
             ELSE Reply(s, Ok([ContentLength |-> storedObject.contentLength]
                              @@ ObjectFields(storedObject)))

\* a variant that reports a key that is absent
DeleteObjectHandlerStrict(s, input) ==
    IF Falsy(input, "Bucket") THEN Reply(s, MissingKey("Bucket"))
    ELSE IF Falsy(input, "Key") THEN Reply(s, MissingKey("Key"))
    ELSE IF ~bucketExists(s, input.Bucket) THEN Reply(s, NoSuchBucket(input.Bucket))
    ELSE IF ~objectExists(s, input.Bucket, input.Key) THEN Reply(s, NoSuchKey(input.Key))
    ELSE Reply(deleteObject(s, input.Bucket, input.Key), Ok([DeleteMarker |-> FALSE]))

DeleteObjectHandler(s, input) ==
    IF Falsy(input, "Bucket") THEN Reply(s, MissingKey("Bucket"))
    ELSE IF Falsy(input, "Key") THEN Reply(s, MissingKey("Key"))
    ELSE IF ~bucketExists(s, input.Bucket) THEN Reply(s, NoSuchBucket(input.Bucket))
    ELSE Reply(deleteObject(s, input.Bucket, input.Key), Ok([DeleteMarker |-> FALSE]))

\* a variant that makes the bucket again when it exists
CreateBucketHandlerAgain(s, input, t) ==
    IF Falsy(input, "Bucket") THEN Reply(s, MissingKey("Bucket"))
    ELSE LET region == IF Falsy(input, "LocationConstraint") THEN "us-east-1"
                       ELSE input.LocationConstraint
             r == createBucket([s EXCEPT !.buckets = MapDelete(@, input.Bucket)],
                               input.Bucket, region, Prop(input, "ACL"), t)
         IN  Reply(r.s, Ok([Location |-> "/" \o input.Bucket]))

CreateBucketHandler(s, input, t) ==
    IF Falsy(input, "Bucket") THEN Reply(s, MissingKey("Bucket"))
    ELSE IF bucketExists(s, input.Bucket)
    THEN Reply(s, createAwsError("BucketAlreadyExists",
                      "The requested bucket name is not available: " \o input.Bucket, 409))
    ELSE LET region == IF Falsy(input, "LocationConstraint") THEN "us-east-1"
                       ELSE input.LocationConstraint
             r == createBucket(s, input.Bucket, region, Prop(input, "ACL"), t)
         IN  IF r.threw THEN Reply(s, GenericError(r.message))
             ELSE Reply(r.s, Ok([Location |-> "/" \o input.Bucket]))

DeleteBucketHandler(s, input) ==
    IF Falsy(input, "Bucket") THEN Reply(s, MissingKey("Bucket"))
    ELSE IF ~bucketExists(s, input.Bucket) THEN Reply(s, NoSuchBucket(input.Bucket))
    ELSE LET r == deleteBucket(s, input.Bucket)
         IN  IF r.threw
             THEN Reply(s, createAwsError("BucketNotEmpty",
                      "The bucket you tried to delete is not empty: " \o input.Bucket, 409))
             ELSE Reply(r.s, Ok(<< >>))

\* CopySource.match(/^\/?(.*?)\/(.*)/): <<matched, bucket, key>>.  The
\* leading slash is optional; the bucket ends at the first slash after it
copySourceMatch(copySource) ==
    LET body == IF startsWith(copySource, "/") /\ indexOf(sliceFrom(copySource, 1), "/") # -1
                THEN sliceFrom(copySource, 1) ELSE copySource
        slash == indexOf(body, "/")
    IN  IF slash = -1 THEN <<FALSE, "", "">>
        ELSE <<TRUE, sliceTo(body, 0, slash), sliceFrom(body, slash + 1)>>

\* decodeURIComponent: every %XX becomes the character of that code; a %
\* that two hexadecimal digits do not follow throws URIError
HexDigit(c) ==
    CASE IsDigit(c) -> CodeUnit(c) - 48
      [] c \in {"A", "a"} -> 10 [] c \in {"B", "b"} -> 11 [] c \in {"C", "c"} -> 12
      [] c \in {"D", "d"} -> 13 [] c \in {"E", "e"} -> 14 [] c \in {"F", "f"} -> 15
      [] OTHER -> -1
fromCharCode(n) ==
    CASE n = 37 -> "%" [] n = 45 -> "-" [] n = 47 -> "/" [] n = 61 -> "="
      [] n = 65 -> "A" [] n = 66 -> "B" [] n = 97 -> "a" [] n = 98 -> "b"
RECURSIVE decodeURIComponent(_)
decodeURIComponent(text) ==
    IF text = "" THEN [threw |-> FALSE, value |-> ""]
    ELSE IF charAt(text, 1) # "%"
    THEN LET rest == decodeURIComponent(sliceFrom(text, 1))
         IN  IF rest.threw THEN rest
             ELSE [threw |-> FALSE, value |-> charAt(text, 1) \o rest.value]
    ELSE IF Len(text) < 3 \/ HexDigit(charAt(text, 2)) = -1 \/ HexDigit(charAt(text, 3)) = -1
    THEN [threw |-> TRUE, message |-> "URI malformed"]
    ELSE LET rest == decodeURIComponent(sliceFrom(text, 3))
         IN  IF rest.threw THEN rest
             ELSE [threw |-> FALSE,
                   value |-> fromCharCode(16 * HexDigit(charAt(text, 2))
                                          + HexDigit(charAt(text, 3))) \o rest.value]

CopyObjectHandler(s, input, t) ==
    IF Falsy(input, "Bucket") \/ Falsy(input, "Key") \/ Falsy(input, "CopySource")
    THEN Reply(s, MissingParameters)
    ELSE LET sourceMatch == copySourceMatch(input.CopySource)
             sourceBucket == sourceMatch[2]
             decoded == decodeURIComponent(sourceMatch[3])
             sourceKey == decoded.value
             r == copyObject(s, sourceBucket, sourceKey, input.Bucket, input.Key,
                             [contentType |-> Prop(input, "ContentType"),
                              metadata |-> Prop(input, "Metadata"),
                              storageClass |-> Prop(input, "StorageClass")], t)
         IN  IF ~sourceMatch[1]
             THEN Reply(s, createAwsError("InvalidArgument", "Invalid CopySource format", 400))
             ELSE IF decoded.threw THEN Reply(s, GenericError(decoded.message))
             ELSE IF ~bucketExists(s, sourceBucket)
             THEN Reply(s, createAwsError("NoSuchBucket",
                      "The specified source bucket does not exist: " \o sourceBucket, 404))
             ELSE IF ~objectExists(s, sourceBucket, sourceKey)
             THEN Reply(s, createAwsError("NoSuchKey",
                      "The specified source key does not exist: " \o sourceKey, 404))
             ELSE IF r.threw THEN Reply(s, GenericError(r.message))
             ELSE Reply(r.s, Ok([ETag |-> r.value.etag,
                                 LastModified |-> r.value.lastModified]))

\* a variant that reports only the keys that existed
RECURSIVE DeleteEachExisting(_, _, _)
DeleteEachExisting(s, bucket, entries) ==
    IF entries = << >> THEN [s |-> s, deleted |-> << >>]
    ELSE IF Falsy(Head(entries), "Key") THEN DeleteEachExisting(s, bucket, Tail(entries))
    ELSE LET rest == DeleteEachExisting(deleteObject(s, bucket, Head(entries).Key),
                                        bucket, Tail(entries))
         IN  [s |-> rest.s,
              deleted |-> IF objectExists(s, bucket, Head(entries).Key)
                          THEN <<Head(entries).Key>> \o rest.deleted
                          ELSE rest.deleted]

\* DeleteObjects: the loop over Delete.Objects; an entry without a Key is
\* skipped, every other key is deleted and reported
RECURSIVE DeleteEach(_, _, _)
DeleteEach(s, bucket, entries) ==
    IF entries = << >> THEN [s |-> s, deleted |-> << >>]
    ELSE IF Falsy(Head(entries), "Key") THEN DeleteEach(s, bucket, Tail(entries))
    ELSE LET rest == DeleteEach(deleteObject(s, bucket, Head(entries).Key), bucket,
                                Tail(entries))
         IN  [s |-> rest.s, deleted |-> <<Head(entries).Key>> \o rest.deleted]

DeleteObjectsHandler(s, input) ==
    IF Falsy(input, "Bucket") THEN Reply(s, MissingKey("Bucket"))
    ELSE IF ~Has(input, "Objects") \/ Len(input.Objects) = 0
    THEN Reply(s, createAwsError("MalformedXML",
                      "The XML you provided was not well-formed", 400))
    ELSE IF ~bucketExists(s, input.Bucket) THEN Reply(s, NoSuchBucket(input.Bucket))
    ELSE LET r == DeleteEach(s, input.Bucket, input.Objects)
         IN  Reply(r.s, IF Has(input, "Quiet") /\ input.Quiet THEN Ok(<< >>)
                        ELSE Ok([Deleted |-> r.deleted]))

\* the listing handlers: Contents is given by its keys
ListingOutput(input, result, tokenField) ==
    Ok([Name |-> input.Bucket,
        Prefix |-> IF Falsy(input, "Prefix") THEN "" ELSE input.Prefix,
        Delimiter |-> Prop(input, "Delimiter"),
        MaxKeys |-> IF Has(input, "MaxKeys") /\ input.MaxKeys # 0
                    THEN input.MaxKeys ELSE DefaultMaxKeys,
        IsTruncated |-> result.isTruncated,
        Contents |-> [i \in 1..Len(result.objects) |-> result.objects[i].key],
        CommonPrefixes |-> result.commonPrefixes]
       @@ (tokenField :> result.nextContinuationToken))

ListOptions(input) ==
    [prefix |-> Prop(input, "Prefix"), delimiter |-> Prop(input, "Delimiter")]
        @@ (IF Has(input, "MaxKeys") THEN [maxKeys |-> input.MaxKeys] ELSE << >>)

ListObjectsV2Handler(s, input) ==
    IF Falsy(input, "Bucket") THEN Reply(s, MissingKey("Bucket"))
    ELSE IF ~bucketExists(s, input.Bucket) THEN Reply(s, NoSuchBucket(input.Bucket))
    ELSE LET r == listObjects(s, input.Bucket,
                      ListOptions(input)
                        @@ [startAfter |-> Prop(input, "StartAfter"),
                            continuationToken |-> Prop(input, "ContinuationToken")])
         IN  IF r.threw THEN Reply(s, GenericError(r.message))
             ELSE Reply(s, ListingOutput(input, r.value, "NextContinuationToken")
                           @@ [KeyCount |-> Len(r.value.objects)])

\* a variant that lists from the start whatever the Marker
ListObjectsHandlerFromStart(s, input) ==
    IF Falsy(input, "Bucket") THEN Reply(s, MissingKey("Bucket"))
    ELSE IF ~bucketExists(s, input.Bucket) THEN Reply(s, NoSuchBucket(input.Bucket))
    ELSE LET r == listObjects(s, input.Bucket, ListOptions(input))
         IN  IF r.threw THEN Reply(s, GenericError(r.message))
             ELSE Reply(s, ListingOutput(input, r.value, "NextMarker"))

ListObjectsHandler(s, input) ==
    IF Falsy(input, "Bucket") THEN Reply(s, MissingKey("Bucket"))
    ELSE IF ~bucketExists(s, input.Bucket) THEN Reply(s, NoSuchBucket(input.Bucket))
    ELSE LET r == listObjects(s, input.Bucket,
                      ListOptions(input) @@ [startAfter |-> Prop(input, "Marker")])
         IN  IF r.threw THEN Reply(s, GenericError(r.message))
             ELSE Reply(s, ListingOutput(input, r.value, "NextMarker"))

GetObjectAttributesHandler(s, input) ==
    IF Falsy(input, "Bucket") \/ Falsy(input, "Key") THEN Reply(s, MissingParameters)
    ELSE IF ~bucketExists(s, input.Bucket) THEN Reply(s, NoSuchBucket(input.Bucket))
    ELSE IF ~objectExists(s, input.Bucket, input.Key) THEN Reply(s, NoSuchKey(input.Key))
    ELSE LET object == getObject(s, input.Bucket, input.Key)
         IN  Reply(s, Ok([ETag |-> object.etag, LastModified |-> object.lastModified,
                          StorageClass |-> object.storageClass,
                          ObjectSize |-> object.contentLength]))

GetObjectTaggingHandler(s, input) ==
    IF Falsy(input, "Bucket") \/ Falsy(input, "Key") THEN Reply(s, MissingParameters)
    ELSE IF ~bucketExists(s, input.Bucket) THEN Reply(s, NoSuchBucket(input.Bucket))
    ELSE IF ~objectExists(s, input.Bucket, input.Key) THEN Reply(s, NoSuchKey(input.Key))
    ELSE LET object == getObject(s, input.Bucket, input.Key)
         IN  Reply(s, Ok([TagSet |-> IF object.tags = undefined THEN "[]"
                                     ELSE object.tags]))

GetObjectAclHandler(s, input) ==
    IF Falsy(input, "Bucket") \/ Falsy(input, "Key") THEN Reply(s, MissingParameters)
    ELSE IF ~bucketExists(s, input.Bucket) THEN Reply(s, NoSuchBucket(input.Bucket))
    ELSE IF ~objectExists(s, input.Bucket, input.Key) THEN Reply(s, NoSuchKey(input.Key))
    ELSE Reply(s, Ok([Owner |-> "default-owner-id",
                      Grants |-> << <<"CanonicalUser", "default-owner-id",
                                      "FULL_CONTROL">> >>]))

PutObjectAclHandler(s, input) ==
    IF Falsy(input, "Bucket") \/ Falsy(input, "Key") THEN Reply(s, MissingParameters)
    ELSE IF ~bucketExists(s, input.Bucket) THEN Reply(s, NoSuchBucket(input.Bucket))
    ELSE IF ~objectExists(s, input.Bucket, input.Key) THEN Reply(s, NoSuchKey(input.Key))
    ELSE Reply(s, Ok(<< >>))

PutObjectTaggingHandler(s, input) ==
    IF Falsy(input, "Bucket") \/ Falsy(input, "Key") \/ ~Has(input, "Tagging")
    THEN Reply(s, MissingParameters)
    ELSE IF ~bucketExists(s, input.Bucket) THEN Reply(s, NoSuchBucket(input.Bucket))
    ELSE IF ~objectExists(s, input.Bucket, input.Key) THEN Reply(s, NoSuchKey(input.Key))
    ELSE LET r == setObjectTags(s, input.Bucket, input.Key,
                                IF Falsy(input.Tagging, "TagSet") THEN "[]"
                                ELSE input.Tagging.TagSet)
         IN  IF r.threw THEN Reply(s, GenericError(r.message)) ELSE Reply(r.s, Ok(<< >>))

DeleteObjectTaggingHandler(s, input) ==
    IF Falsy(input, "Bucket") \/ Falsy(input, "Key") THEN Reply(s, MissingParameters)
    ELSE IF ~bucketExists(s, input.Bucket) THEN Reply(s, NoSuchBucket(input.Bucket))
    ELSE IF ~objectExists(s, input.Bucket, input.Key) THEN Reply(s, NoSuchKey(input.Key))
    ELSE LET r == deleteObjectTags(s, input.Bucket, input.Key)
         IN  IF r.threw THEN Reply(s, GenericError(r.message)) ELSE Reply(r.s, Ok(<< >>))

NoSuchUpload(uploadId) ==
    createAwsError("NoSuchUpload",
                   "The specified multipart upload does not exist: " \o uploadId, 404)

CreateMultipartUploadHandler(s, input, t) ==
    IF Falsy(input, "Bucket") \/ Falsy(input, "Key") THEN Reply(s, MissingParameters)
    ELSE LET r == createMultipartUpload(s, input.Bucket, input.Key,
                      [metadata |-> Prop(input, "Metadata"),
                       contentType |-> Prop(input, "ContentType"),
                       storageClass |-> Prop(input, "StorageClass")], t)
         IN  Reply(r.s, Ok([Bucket |-> input.Bucket, Key |-> input.Key,
                            UploadId |-> r.value.uploadId]))

UploadPartHandler(s, input, t) ==
    IF Falsy(input, "Bucket") \/ Falsy(input, "Key") \/ Falsy(input, "UploadId")
       \/ ~Has(input, "PartNumber")
    THEN Reply(s, MissingParameters)
    ELSE IF input.UploadId \notin DOMAIN s.multipartUploads
    THEN Reply(s, NoSuchUpload(input.UploadId))
    ELSE LET r == uploadPart(s, input.UploadId, input.PartNumber, toBuffer(input), t)
         IN  IF r.threw THEN Reply(s, GenericError(r.message))
             ELSE Reply(r.s, Ok([ETag |-> r.value.etag]))

\* CopySourceRange.match(/^bytes=(\d+)-(\d+)$/) and the slice it selects
CopyRange(input, body) ==
    LET m == rangeMatch(input.CopySourceRange)
    IN  IF Falsy(input, "CopySourceRange") THEN body
        ELSE IF ~m[1] \/ m[2] = "" \/ m[3] = "" THEN body
        ELSE SubSeq(body, parseInt(m[2]) + 1, Lesser(parseInt(m[3]) + 1, Len(body)))

UploadPartCopyHandler(s, input, t) ==
    IF Falsy(input, "Bucket") \/ Falsy(input, "Key") \/ Falsy(input, "UploadId")
       \/ ~Has(input, "PartNumber") \/ Falsy(input, "CopySource")
    THEN Reply(s, MissingParameters)
    ELSE IF input.UploadId \notin DOMAIN s.multipartUploads
    THEN Reply(s, NoSuchUpload(input.UploadId))
    ELSE LET sourceMatch == copySourceMatch(input.CopySource)
             sourceBucket == sourceMatch[2]
             decoded == decodeURIComponent(sourceMatch[3])
             sourceKey == decoded.value
             r == uploadPart(s, input.UploadId, input.PartNumber,
                             CopyRange(input, getObject(s, sourceBucket, sourceKey).body), t)
         IN  IF ~sourceMatch[1]
             THEN Reply(s, createAwsError("InvalidArgument", "Invalid CopySource format", 400))
             ELSE IF decoded.threw THEN Reply(s, GenericError(decoded.message))
             ELSE IF ~objectExists(s, sourceBucket, sourceKey)
             THEN Reply(s, createAwsError("NoSuchKey",
                      "The specified source key does not exist: " \o sourceKey, 404))
             ELSE IF r.threw THEN Reply(s, GenericError(r.message))
             ELSE Reply(r.s, Ok([ETag |-> r.value.etag,
                                 LastModified |-> r.value.lastModified]))

CompleteMultipartUploadHandler(s, input, t) ==
    IF Falsy(input, "Bucket") \/ Falsy(input, "Key") \/ Falsy(input, "UploadId")
       \/ ~Has(input, "Parts")
    THEN Reply(s, MissingParameters)
    ELSE IF input.UploadId \notin DOMAIN s.multipartUploads
    THEN Reply(s, NoSuchUpload(input.UploadId))
    ELSE LET r == completeMultipartUpload(s, input.UploadId, input.Parts, t)
         IN  IF r.threw THEN Reply(s, GenericError(r.message))
             ELSE Reply(r.s, Ok([Location |-> "https://" \o input.Bucket
                                              \o ".s3.amazonaws.com/" \o input.Key,
                                 Bucket |-> input.Bucket, Key |-> input.Key,
                                 ETag |-> r.value.etag]))

AbortMultipartUploadHandler(s, input) ==
    IF Falsy(input, "Bucket") \/ Falsy(input, "Key") \/ Falsy(input, "UploadId")
    THEN Reply(s, MissingParameters)
    ELSE IF input.UploadId \notin DOMAIN s.multipartUploads
    THEN Reply(s, NoSuchUpload(input.UploadId))
    ELSE Reply(abortMultipartUpload(s, input.UploadId), Ok(<< >>))

ListMultipartUploadsHandler(s, input) ==
    IF Falsy(input, "Bucket") THEN Reply(s, MissingKey("Bucket"))
    ELSE IF ~bucketExists(s, input.Bucket) THEN Reply(s, NoSuchBucket(input.Bucket))
    ELSE LET uploads == listMultipartUploads(s, input.Bucket,
                            [prefix |-> Prop(input, "Prefix")]
                              @@ (IF Has(input, "MaxUploads")
                                  THEN [maxUploads |-> input.MaxUploads] ELSE << >>))
         IN  Reply(s, Ok([Bucket |-> input.Bucket,
                          Uploads |-> [i \in 1..Len(uploads) |->
                                         [UploadId |-> uploads[i],
                                          Key |-> s.multipartUploads[uploads[i]].key]],
                          IsTruncated |-> FALSE]))

ListPartsHandler(s, input) ==
    IF Falsy(input, "Bucket") \/ Falsy(input, "Key") \/ Falsy(input, "UploadId")
    THEN Reply(s, MissingParameters)
    ELSE IF input.UploadId \notin DOMAIN s.multipartUploads
    THEN Reply(s, NoSuchUpload(input.UploadId))
    ELSE LET upload == s.multipartUploads[input.UploadId]
             r == listParts(s, input.UploadId,
                      (IF Has(input, "MaxParts") THEN [maxParts |-> input.MaxParts]
                       ELSE << >>)
                      @@ (IF Falsy(input, "PartNumberMarker") THEN << >>
                          ELSE [partNumberMarker |-> parseInt(input.PartNumberMarker)]))
         IN  IF r.threw THEN Reply(s, GenericError(r.message))
             ELSE Reply(s, Ok([Bucket |-> input.Bucket, Key |-> input.Key,
                               UploadId |-> input.UploadId, IsTruncated |-> FALSE,
                               Parts |-> [i \in 1..Len(r.value) |->
                                            [PartNumber |-> r.value[i],
                                             ETag |-> upload.parts[r.value[i]].etag,
                                             Size |-> upload.parts[r.value[i]].size]]]))

(***************************************************************************)
(* Bucket configuration.  A configuration is the record of the properties  *)
(* that were ever assigned; a deleted sub-resource is a property holding   *)
(* undefined.  Rule lists, tag sets, policies and configuration documents  *)
(* are tokens: "[]" is the empty list, which is truthy.                    *)
(***************************************************************************)
getBucketConfiguration(s, bucket) == s.buckets[bucket].configuration

\* a variant that replaces the configuration by the partial one
updateBucketConfigurationWhole(s, bucket, config) ==
    [s EXCEPT !.buckets[bucket].configuration = config]

\* storedBucket.configuration = { ...storedBucket.configuration, ...config }
updateBucketConfiguration(s, bucket, config) ==
    [s EXCEPT !.buckets[bucket].configuration = config @@ @]

GetBucketVersioningHandler(s, input) ==
    IF Falsy(input, "Bucket") THEN Reply(s, MissingKey("Bucket"))
    ELSE IF ~bucketExists(s, input.Bucket) THEN Reply(s, NoSuchBucket(input.Bucket))
    ELSE LET config == getBucketConfiguration(s, input.Bucket)
         IN  Reply(s, Ok([Status |-> IF Has(config, "versioning")
                                     THEN Prop(config.versioning, "Status")
                                     ELSE undefined]))

PutBucketVersioningHandler(s, input) ==
    IF Falsy(input, "Bucket") \/ ~Has(input, "VersioningConfiguration")
    THEN Reply(s, MissingParameters)
    ELSE IF ~bucketExists(s, input.Bucket) THEN Reply(s, NoSuchBucket(input.Bucket))
    ELSE Reply(updateBucketConfiguration(s, input.Bucket,
                   [versioning |-> input.VersioningConfiguration]), Ok(<< >>))

GetBucketCorsHandler(s, input) ==
    IF Falsy(input, "Bucket") THEN Reply(s, MissingKey("Bucket"))
    ELSE IF ~bucketExists(s, input.Bucket) THEN Reply(s, NoSuchBucket(input.Bucket))
    ELSE LET config == getBucketConfiguration(s, input.Bucket)
         IN  IF Falsy(config, "cors")
             THEN Reply(s, createAwsError("NoSuchCORSConfiguration",
                               "The CORS configuration does not exist", 404))
             ELSE Reply(s, Ok([CORSRules |-> config.cors]))

PutBucketCorsHandler(s, input) ==
    IF Falsy(input, "Bucket") \/ ~Has(input, "CORSConfiguration")
    THEN Reply(s, MissingParameters)
    ELSE IF ~bucketExists(s, input.Bucket) THEN Reply(s, NoSuchBucket(input.Bucket))
    ELSE Reply(updateBucketConfiguration(s, input.Bucket,
                   [cors |-> Prop(input.CORSConfiguration, "CORSRules")]), Ok(<< >>))

DeleteBucketCorsHandler(s, input) ==
    IF Falsy(input, "Bucket") THEN Reply(s, MissingKey("Bucket"))
    ELSE IF ~bucketExists(s, input.Bucket) THEN Reply(s, NoSuchBucket(input.Bucket))
    ELSE Reply(updateBucketConfiguration(s, input.Bucket, [cors |-> undefined]), Ok(<< >>))

GetBucketPolicyHandler(s, input) ==
    IF Falsy(input, "Bucket") THEN Reply(s, MissingKey("Bucket"))
    ELSE IF ~bucketExists(s, input.Bucket) THEN Reply(s, NoSuchBucket(input.Bucket))
    ELSE LET config == getBucketConfiguration(s, input.Bucket)
         IN  IF Falsy(config, "policy")
             THEN Reply(s, createAwsError("NoSuchBucketPolicy",
                               "The bucket policy does not exist", 404))
             ELSE Reply(s, Ok([Policy |-> config.policy]))

PutBucketPolicyHandler(s, input) ==
    IF Falsy(input, "Bucket") \/ Falsy(input, "Policy") THEN Reply(s, MissingParameters)
    ELSE IF ~bucketExists(s, input.Bucket) THEN Reply(s, NoSuchBucket(input.Bucket))
    ELSE Reply(updateBucketConfiguration(s, input.Bucket, [policy |-> input.Policy]),
               Ok(<< >>))

DeleteBucketPolicyHandler(s, input) ==
    IF Falsy(input, "Bucket") THEN Reply(s, MissingKey("Bucket"))
    ELSE IF ~bucketExists(s, input.Bucket) THEN Reply(s, NoSuchBucket(input.Bucket))
    ELSE Reply(updateBucketConfiguration(s, input.Bucket, [policy |-> undefined]), Ok(<< >>))

\* Owner and Grants fall back, each on its own, to the default owner with
\* FULL_CONTROL
GetBucketAclHandler(s, input) ==
    IF Falsy(input, "Bucket") THEN Reply(s, MissingKey("Bucket"))
    ELSE IF ~bucketExists(s, input.Bucket) THEN Reply(s, NoSuchBucket(input.Bucket))
    ELSE LET config == getBucketConfiguration(s, input.Bucket)
         IN  Reply(s, Ok([Owner |-> IF Has(config, "acl") /\ Has(config.acl, "Owner")
                                    THEN config.acl.Owner ELSE "default-owner-id",
                          Grants |-> IF Has(config, "acl") /\ Has(config.acl, "Grants")
                                     THEN config.acl.Grants
                                     ELSE << <<"CanonicalUser", "default-owner-id",
                                               "FULL_CONTROL">> >>]))

PutBucketAclHandler(s, input) ==
    IF Falsy(input, "Bucket") THEN Reply(s, MissingKey("Bucket"))
    ELSE IF ~bucketExists(s, input.Bucket) THEN Reply(s, NoSuchBucket(input.Bucket))
    ELSE IF Has(input, "AccessControlPolicy")
    THEN Reply(updateBucketConfiguration(s, input.Bucket,
                   [acl |-> input.AccessControlPolicy]), Ok(<< >>))
    ELSE Reply(s, Ok(<< >>))

GetBucketEncryptionHandler(s, input) ==
    IF Falsy(input, "Bucket") THEN Reply(s, MissingKey("Bucket"))
    ELSE IF ~bucketExists(s, input.Bucket) THEN Reply(s, NoSuchBucket(input.Bucket))
    ELSE LET config == getBucketConfiguration(s, input.Bucket)
         IN  IF Falsy(config, "encryption")
             THEN Reply(s, createAwsError("ServerSideEncryptionConfigurationNotFoundError",
                               "The server side encryption configuration was not found", 404))
             ELSE Reply(s, Ok([ServerSideEncryptionConfiguration |-> config.encryption]))

PutBucketEncryptionHandler(s, input) ==
    IF Falsy(input, "Bucket") \/ ~Has(input, "ServerSideEncryptionConfiguration")
    THEN Reply(s, MissingParameters)
    ELSE IF ~bucketExists(s, input.Bucket) THEN Reply(s, NoSuchBucket(input.Bucket))
    ELSE Reply(updateBucketConfiguration(s, input.Bucket,
                   [encryption |-> input.ServerSideEncryptionConfiguration]), Ok(<< >>))

DeleteBucketEncryptionHandler(s, input) ==
    IF Falsy(input, "Bucket") THEN Reply(s, MissingKey("Bucket"))
    ELSE IF ~bucketExists(s, input.Bucket) THEN Reply(s, NoSuchBucket(input.Bucket))
    ELSE Reply(updateBucketConfiguration(s, input.Bucket, [encryption |-> undefined]),
               Ok(<< >>))

GetBucketLifecycleConfigurationHandler(s, input) ==
    IF Falsy(input, "Bucket") THEN Reply(s, MissingKey("Bucket"))
    ELSE IF ~bucketExists(s, input.Bucket) THEN Reply(s, NoSuchBucket(input.Bucket))
    ELSE LET config == getBucketConfiguration(s, input.Bucket)
         IN  IF Falsy(config, "lifecycle")
             THEN Reply(s, createAwsError("NoSuchLifecycleConfiguration",
                               "The lifecycle configuration does not exist", 404))
             ELSE Reply(s, Ok([Rules |-> config.lifecycle]))

\* LifecycleConfiguration is not required: lifecycle: LifecycleConfiguration?.Rules
PutBucketLifecycleConfigurationHandler(s, input) ==
    IF Falsy(input, "Bucket") THEN Reply(s, MissingKey("Bucket"))
    ELSE IF ~bucketExists(s, input.Bucket) THEN Reply(s, NoSuchBucket(input.Bucket))
    ELSE Reply(updateBucketConfiguration(s, input.Bucket,
                   [lifecycle |-> IF Has(input, "LifecycleConfiguration")
                                  THEN Prop(input.LifecycleConfiguration, "Rules")
                                  ELSE undefined]), Ok(<< >>))

DeleteBucketLifecycleHandler(s, input) ==
    IF Falsy(input, "Bucket") THEN Reply(s, MissingKey("Bucket"))
    ELSE IF ~bucketExists(s, input.Bucket) THEN Reply(s, NoSuchBucket(input.Bucket))
    ELSE Reply(updateBucketConfiguration(s, input.Bucket, [lifecycle |-> undefined]),
               Ok(<< >>))

\* the response spreads the stored website configuration; it is one field here
GetBucketWebsiteHandler(s, input) ==
    IF Falsy(input, "Bucket") THEN Reply(s, MissingKey("Bucket"))
    ELSE IF ~bucketExists(s, input.Bucket) THEN Reply(s, NoSuchBucket(input.Bucket))
    ELSE LET config == getBucketConfiguration(s, input.Bucket)
         IN  IF Falsy(config, "website")
             THEN Reply(s, createAwsError("NoSuchWebsiteConfiguration",
                               "The specified bucket does not have a website configuration",
                               404))
             ELSE Reply(s, Ok([WebsiteConfiguration |-> config.website]))

PutBucketWebsiteHandler(s, input) ==
    IF Falsy(input, "Bucket") \/ ~Has(input, "WebsiteConfiguration")
    THEN Reply(s, MissingParameters)
    ELSE IF ~bucketExists(s, input.Bucket) THEN Reply(s, NoSuchBucket(input.Bucket))
    ELSE Reply(updateBucketConfiguration(s, input.Bucket,
                   [website |-> input.WebsiteConfiguration]), Ok(<< >>))

DeleteBucketWebsiteHandler(s, input) ==
    IF Falsy(input, "Bucket") THEN Reply(s, MissingKey("Bucket"))
    ELSE IF ~bucketExists(s, input.Bucket) THEN Reply(s, NoSuchBucket(input.Bucket))
    ELSE Reply(updateBucketConfiguration(s, input.Bucket, [website |-> undefined]),
               Ok(<< >>))

GetBucketTaggingHandler(s, input) ==
    IF Falsy(input, "Bucket") THEN Reply(s, MissingKey("Bucket"))
    ELSE IF ~bucketExists(s, input.Bucket) THEN Reply(s, NoSuchBucket(input.Bucket))
    ELSE LET config == getBucketConfiguration(s, input.Bucket)
         IN  IF Falsy(config, "tags")
             THEN Reply(s, createAwsError("NoSuchTagSet", "The TagSet does not exist", 404))
             ELSE Reply(s, Ok([TagSet |-> config.tags]))

PutBucketTaggingHandler(s, input) ==
    IF Falsy(input, "Bucket") \/ ~Has(input, "Tagging") THEN Reply(s, MissingParameters)
    ELSE IF ~bucketExists(s, input.Bucket) THEN Reply(s, NoSuchBucket(input.Bucket))
    ELSE Reply(updateBucketConfiguration(s, input.Bucket,
                   [tags |-> Prop(input.Tagging, "TagSet")]), Ok(<< >>))

DeleteBucketTaggingHandler(s, input) ==
    IF Falsy(input, "Bucket") THEN Reply(s, MissingKey("Bucket"))
    ELSE IF ~bucketExists(s, input.Bucket) THEN Reply(s, NoSuchBucket(input.Bucket))
    ELSE Reply(updateBucketConfiguration(s, input.Bucket, [tags |-> undefined]), Ok(<< >>))

GetBucketLoggingHandler(s, input) ==
    IF Falsy(input, "Bucket") THEN Reply(s, MissingKey("Bucket"))
    ELSE IF ~bucketExists(s, input.Bucket) THEN Reply(s, NoSuchBucket(input.Bucket))
    ELSE LET config == getBucketConfiguration(s, input.Bucket)
         IN  Reply(s, Ok([LoggingEnabled |-> IF Has(config, "logging")
                                             THEN Prop(config.logging, "LoggingEnabled")
                                             ELSE undefined]))

PutBucketLoggingHandler(s, input) ==
    IF Falsy(input, "Bucket") \/ ~Has(input, "BucketLoggingStatus")
    THEN Reply(s, MissingParameters)
    ELSE IF ~bucketExists(s, input.Bucket) THEN Reply(s, NoSuchBucket(input.Bucket))
    ELSE Reply(updateBucketConfiguration(s, input.Bucket,
                   [logging |-> input.BucketLoggingStatus]), Ok(<< >>))

\* S3MockClient.registerDefaultHandlers: the handler registered for each
\* bucket configuration command
BucketConfigurationHandler(command, s, input) ==
    CASE command = "GetBucketVersioning" -> GetBucketVersioningHandler(s, input)
      [] command = "PutBucketVersioning" -> PutBucketVersioningHandler(s, input)
      [] command = "GetBucketCors" -> GetBucketCorsHandler(s, input)
      [] command = "PutBucketCors" -> PutBucketCorsHandler(s, input)
      [] command = "DeleteBucketCors" -> DeleteBucketCorsHandler(s, input)
      [] command = "GetBucketPolicy" -> GetBucketPolicyHandler(s, input)
      [] command = "PutBucketPolicy" -> PutBucketPolicyHandler(s, input)
      [] command = "DeleteBucketPolicy" -> DeleteBucketPolicyHandler(s, input)
      [] command = "GetBucketAcl" -> GetBucketAclHandler(s, input)
      [] command = "PutBucketAcl" -> PutBucketAclHandler(s, input)
      [] command = "GetBucketEncryption" -> GetBucketEncryptionHandler(s, input)
      [] command = "PutBucketEncryption" -> PutBucketEncryptionHandler(s, input)
      [] command = "DeleteBucketEncryption" -> DeleteBucketEncryptionHandler(s, input)
      [] command = "GetBucketLifecycleConfiguration" ->
            GetBucketLifecycleConfigurationHandler(s, input)
      [] command = "PutBucketLifecycleConfiguration" ->
            PutBucketLifecycleConfigurationHandler(s, input)
      [] command = "DeleteBucketLifecycle" -> DeleteBucketLifecycleHandler(s, input)
      [] command = "GetBucketWebsite" -> GetBucketWebsiteHandler(s, input)
      [] command = "PutBucketWebsite" -> PutBucketWebsiteHandler(s, input)
      [] command = "DeleteBucketWebsite" -> DeleteBucketWebsiteHandler(s, input)
      [] command = "GetBucketTagging" -> GetBucketTaggingHandler(s, input)
      [] command = "PutBucketTagging" -> PutBucketTaggingHandler(s, input)
      [] command = "DeleteBucketTagging" -> DeleteBucketTaggingHandler(s, input)
      [] command = "GetBucketLogging" -> GetBucketLoggingHandler(s, input)
      [] command = "PutBucketLogging" -> PutBucketLoggingHandler(s, input)

(***************************************************************************)
(* Actions: one per operation.  Each records the request and the response, *)
(* installs the store the handler leaves, and maintains the history of     *)
(* writes.  The bounds keep the store finite.                              *)
(***************************************************************************)
MaxObjects == 3
MaxUploads == 2
MaxTime == 1
MaxConfigured == 2

ObjectSlots(s) == UNION {{<<b, k>> : k \in DOMAIN s.objects[b]} : b \in DOMAIN s.objects}
WithinBounds(s) ==
    /\ Cardinality(ObjectSlots(s)) <= MaxObjects
    /\ s.uuidCount <= MaxUploads
    /\ \A b \in DOMAIN s.buckets :
          Cardinality(DOMAIN s.buckets[b].configuration) <= MaxConfigured

Install(s) ==
    /\ WithinBounds(s)
    /\ buckets' = s.buckets
    /\ objects' = s.objects
    /\ multipartUploads' = s.multipartUploads
    /\ uuidCount' = s.uuidCount
    /\ changed' = (s # TheStore)

\* registerDefaultHandlers(): the commands the client answers by default
defaultHandlers ==
    {"CreateBucket", "DeleteBucket", "ListBuckets", "HeadBucket", "GetBucketLocation",
     "PutObject", "GetObject", "HeadObject", "DeleteObject", "CopyObject",
     "DeleteObjects", "ListObjects", "ListObjectsV2", "GetObjectAttributes",
     "GetObjectTagging", "PutObjectTagging", "DeleteObjectTagging",
     "GetObjectAcl", "PutObjectAcl",
     "CreateMultipartUpload", "UploadPart", "UploadPartCopy",
     "CompleteMultipartUpload", "AbortMultipartUpload", "ListMultipartUploads",
     "ListParts",
     "GetBucketVersioning", "PutBucketVersioning",
     "GetBucketCors", "PutBucketCors", "DeleteBucketCors",
     "GetBucketPolicy", "PutBucketPolicy", "DeleteBucketPolicy",
     "GetBucketAcl", "PutBucketAcl",
     "GetBucketEncryption", "PutBucketEncryption", "DeleteBucketEncryption",
     "GetBucketLifecycleConfiguration", "PutBucketLifecycleConfiguration",
     "DeleteBucketLifecycle",
     "GetBucketWebsite", "PutBucketWebsite", "DeleteBucketWebsite",
     "GetBucketTagging", "PutBucketTagging", "DeleteBucketTagging",
     "GetBucketLogging", "PutBucketLogging"}

\* MockClient.reset(): the behaviours and the recorded calls of the client are
\* cleared, the default handlers stay
MockClientReset(registered) == registered

\* the default handler registered for a command is run on the store
Record(op, input, r) ==
    /\ op \in handlers
    /\ handlers' = handlers
    /\ UNCHANGED <<commandHandlers, calls, draining,
                   isInstalled, originalSend, clientInstance, send>>
    /\ request' = [op |-> op, input |-> input]
    /\ response' = r.response
    /\ Install(r.s)
    /\ now' = now

Succeeded(resp) == resp.kind = "Output"

\* the operation that last wrote a key, "none" for a key not written
WrittenBy(slot) == IF slot \in DOMAIN lastWrite THEN lastWrite[slot].by ELSE "none"

\* what a write put at its key, and the operation that wrote it
Written(by, body, contentType, metadata, tags) ==
    [by |-> by, body |-> body, contentType |-> contentType, metadata |-> metadata,
     tags |-> tags]

\* a write to a key, when the handler succeeded: the history has it, and the
\* operation whose write it replaced is noted
Write(r, slot, written) ==
    IF Succeeded(r.response)
    THEN /\ lastWrite' = MapSet(lastWrite, slot, written)
         /\ replaced' = WrittenBy(slot)
    ELSE /\ lastWrite' = lastWrite
         /\ replaced' = "none"

\* no write
NoWrite ==
    /\ lastWrite' = lastWrite
    /\ replaced' = "none"

PutObject(input) ==
    LET r == PutObjectHandler(TheStore, input, now)
    IN  /\ Record("PutObject", input, r)
        /\ Write(r, <<Prop(input, "Bucket"), Prop(input, "Key")>>,
                 Written("PutObject", toBuffer(input), Prop(input, "ContentType"),
                         Prop(input, "Metadata"), "[]"))

GetObject(input) ==
    /\ Record("GetObject", input, GetObjectHandler(TheStore, input))
    /\ NoWrite

HeadObject(input) ==
    /\ Record("HeadObject", input, HeadObjectHandler(TheStore, input))
    /\ NoWrite

DeleteObject(input) ==
    LET r == DeleteObjectHandler(TheStore, input)
    IN  /\ Record("DeleteObject", input, r)
        /\ lastWrite' =
              IF Succeeded(r.response)
              THEN MapDelete(lastWrite, <<input.Bucket, input.Key>>)
              ELSE lastWrite
        /\ replaced' = "none"

DeleteObjects(input) ==
    LET r == DeleteObjectsHandler(TheStore, input)
    IN  /\ Record("DeleteObjects", input, r)
        /\ lastWrite' =
              IF Succeeded(r.response)
              THEN [slot \in (DOMAIN lastWrite)
                        \ {<<input.Bucket, Prop(input.Objects[i], "Key")>> :
                              i \in 1..Len(input.Objects)} |-> lastWrite[slot]]
              ELSE lastWrite
        /\ replaced' = "none"

\* the copy carries the body and the tags of its source and the description
\* the request gives
CopyObject(input) ==
    LET r == CopyObjectHandler(TheStore, input, now)
        m == copySourceMatch(input.CopySource)
        source == <<m[2], decodeURIComponent(m[3]).value>>
    IN  /\ Record("CopyObject", input, r)
        /\ IF Succeeded(r.response)
           THEN Write(r, <<input.Bucket, input.Key>>,
                      Written("CopyObject", lastWrite[source].body,
                              Prop(input, "ContentType"), Prop(input, "Metadata"),
                              lastWrite[source].tags))
           ELSE NoWrite

CreateBucket(input) ==
    /\ Record("CreateBucket", input, CreateBucketHandler(TheStore, input, now))
    /\ NoWrite

DeleteBucket(input) ==
    /\ Record("DeleteBucket", input, DeleteBucketHandler(TheStore, input))
    /\ NoWrite

ListObjectsV2(input) ==
    /\ Record("ListObjectsV2", input, ListObjectsV2Handler(TheStore, input))
    /\ NoWrite

ListObjects(input) ==
    /\ Record("ListObjects", input, ListObjectsHandler(TheStore, input))
    /\ NoWrite

GetObjectAttributes(input) ==
    /\ Record("GetObjectAttributes", input, GetObjectAttributesHandler(TheStore, input))
    /\ NoWrite

GetObjectTagging(input) ==
    /\ Record("GetObjectTagging", input, GetObjectTaggingHandler(TheStore, input))
    /\ NoWrite

GetObjectAcl(input) ==
    /\ Record("GetObjectAcl", input, GetObjectAclHandler(TheStore, input))
    /\ NoWrite

PutObjectAcl(input) ==
    /\ Record("PutObjectAcl", input, PutObjectAclHandler(TheStore, input))
    /\ NoWrite

PutObjectTagging(input) ==
    LET r == PutObjectTaggingHandler(TheStore, input)
    IN  /\ Record("PutObjectTagging", input, r)
        /\ lastWrite' =
              IF Succeeded(r.response)
              THEN [lastWrite EXCEPT ![<<input.Bucket, input.Key>>].tags =
                        IF Falsy(input.Tagging, "TagSet") THEN "[]"
                        ELSE input.Tagging.TagSet]
              ELSE lastWrite
        /\ replaced' = "none"

DeleteObjectTagging(input) ==
    LET r == DeleteObjectTaggingHandler(TheStore, input)
    IN  /\ Record("DeleteObjectTagging", input, r)
        /\ lastWrite' =
              IF Succeeded(r.response)
              THEN [lastWrite EXCEPT ![<<input.Bucket, input.Key>>].tags = "[]"]
              ELSE lastWrite
        /\ replaced' = "none"

CreateMultipartUpload(input) ==
    /\ Record("CreateMultipartUpload", input, CreateMultipartUploadHandler(TheStore, input, now))
    /\ NoWrite

UploadPart(input) ==
    /\ Record("UploadPart", input, UploadPartHandler(TheStore, input, now))
    /\ NoWrite

UploadPartCopy(input) ==
    /\ Record("UploadPartCopy", input, UploadPartCopyHandler(TheStore, input, now))
    /\ NoWrite

\* the completed object goes where the upload was initiated
CompleteMultipartUpload(input) ==
    LET r == CompleteMultipartUploadHandler(TheStore, input, now)
        upload == multipartUploads[input.UploadId]
    IN  /\ Record("CompleteMultipartUpload", input, r)
        /\ IF Succeeded(r.response)
           THEN Write(r, <<upload.bucket, upload.key>>,
                      Written("CompleteMultipartUpload", ConcatParts(upload, input.Parts),
                              upload.contentType, upload.metadata, "[]"))
           ELSE NoWrite

AbortMultipartUpload(input) ==
    /\ Record("AbortMultipartUpload", input, AbortMultipartUploadHandler(TheStore, input))
    /\ NoWrite

ListMultipartUploads(input) ==
    /\ Record("ListMultipartUploads", input, ListMultipartUploadsHandler(TheStore, input))
    /\ NoWrite

ListParts(input) ==
    /\ Record("ListParts", input, ListPartsHandler(TheStore, input))
    /\ NoWrite

\* a bucket configuration command, sent to the handler registered for it
BucketConfiguration(command, input) ==
    /\ Record(command, input, BucketConfigurationHandler(command, TheStore, input))
    /\ NoWrite

(***************************************************************************)
(* Streamed bodies.  A PutObject or UploadPart handler whose Body is a     *)
(* stream suspends in `for await (const chunk of Body)`; each chunk that   *)
(* arrives resumes it for one push, and when the stream ends it goes on to *)
(* the store and to its response without suspending again.  Other         *)
(* handlers and requests run in between.                                   *)
(***************************************************************************)
MaxDraining == 2

\* the handler passes its checks and reaches the loop over the stream
Suspends(command, s, input) ==
    /\ Has(input, "Body")
    /\ input.Body.type = "Readable"
    /\ CASE command = "PutObject" -> ~Falsy(input, "Bucket") /\ ~Falsy(input, "Key")
         [] command = "UploadPart" ->
               /\ ~(Falsy(input, "Bucket") \/ Falsy(input, "Key")
                    \/ Falsy(input, "UploadId") \/ ~Has(input, "PartNumber"))
               /\ input.UploadId \in DOMAIN s.multipartUploads

\* what the handler does from Buffer.concat(chunks) to its return
AfterDraining(command, s, input, bodyBuffer, t) ==
    CASE command = "PutObject" ->
            PutObjectHandler(s, [input EXCEPT !.Body = [type |-> "Buffer",
                                                         bytes |-> bodyBuffer]], t)
      [] command = "UploadPart" ->
            LET r == uploadPart(s, input.UploadId, input.PartNumber, bodyBuffer, t)
            IN  IF r.threw THEN Reply(s, GenericError(r.message))
                ELSE Reply(r.s, Ok([ETag |-> r.value.etag]))

\* a variant that makes sure of the bucket before it reads the body
BeginDrainingEnsuring(command, input) ==
    /\ Suspends(command, TheStore, input)
    /\ \E id \in 1..MaxDraining :
          /\ id \notin DOMAIN draining
          /\ \A other \in 1..(id - 1) : other \in DOMAIN draining
          /\ draining' = MapSet(draining, id,
                                [op |-> command, input |-> input, chunks |-> << >>])
    /\ Install(ensureBucket(TheStore, input.Bucket, now).s)
    /\ UNCHANGED <<now, request, response, lastWrite, replaced, handlers,
                   commandHandlers, calls,
                   isInstalled, originalSend, clientInstance, send>>

\* the handler of a request with a streamed body runs up to its first await
BeginDraining(command, input) ==
    /\ Suspends(command, TheStore, input)
    /\ \E id \in 1..MaxDraining :
          /\ id \notin DOMAIN draining
          /\ \A other \in 1..(id - 1) : other \in DOMAIN draining
          /\ draining' = MapSet(draining, id,
                                [op |-> command, input |-> input, chunks |-> << >>])
    /\ UNCHANGED <<buckets, objects, multipartUploads, uuidCount, now, request, response,
                   changed, lastWrite, replaced, handlers, commandHandlers, calls,
                   isInstalled, originalSend, clientInstance, send>>

\* a variant that writes what it has read so far into the store
DrainIntoStore(id) ==
    /\ id \in DOMAIN draining
    /\ Len(draining[id].chunks) < Len(draining[id].input.Body.chunks)
    /\ LET d == draining[id]
           chunks == Append(d.chunks, d.input.Body.chunks[Len(d.chunks) + 1])
       IN  /\ draining' = [draining EXCEPT ![id].chunks = chunks]
           /\ Install(AfterDraining(d.op, TheStore, d.input, concatChunks(chunks), now).s)
    /\ UNCHANGED <<now, request, response, lastWrite, replaced, handlers,
                   commandHandlers, calls,
                   isInstalled, originalSend, clientInstance, send>>

\* the next chunk of the stream arrives: chunks.push(...)
Drain(id) ==
    /\ id \in DOMAIN draining
    /\ Len(draining[id].chunks) < Len(draining[id].input.Body.chunks)
    /\ draining' = [draining EXCEPT
                       ![id].chunks = Append(@, draining[id].input.Body.chunks[Len(@) + 1])]
    /\ UNCHANGED <<buckets, objects, multipartUploads, uuidCount, now, request, response,
                   changed, lastWrite, replaced, handlers, commandHandlers, calls,
                   isInstalled, originalSend, clientInstance, send>>

\* the stream ends: the handler stores the buffer and returns
FinishDraining(id) ==
    /\ id \in DOMAIN draining
    /\ Len(draining[id].chunks) = Len(draining[id].input.Body.chunks)
    /\ LET d == draining[id]
           r == AfterDraining(d.op, TheStore, d.input, concatChunks(d.chunks), now)
       IN  /\ request' = [op |-> d.op, input |-> d.input]
           /\ response' = r.response
           /\ Install(r.s)
           /\ IF d.op = "PutObject"
              THEN Write(r, <<d.input.Bucket, d.input.Key>>,
                         Written("PutObject", toBuffer(d.input),
                                 Prop(d.input, "ContentType"),
                                 Prop(d.input, "Metadata"), "[]"))
              ELSE NoWrite
    /\ draining' = MapDelete(draining, id)
    /\ UNCHANGED <<now, handlers, commandHandlers, calls,
                   isInstalled, originalSend, clientInstance, send>>

(***************************************************************************)
(* MockClient: behaviours set by the user, the call history and the        *)
(* dispatch of a command that is sent.  A MockedCommandBehavior is a       *)
(* record that has callCount and one of error, handler, responses and      *)
(* response.  A handler given to callsFake is named by a string.           *)
(***************************************************************************)
MaxCalls == 3
MaxResponses == 2

\* command.constructor.name
CommandName(command) == command \o "Command"

\* the functions the user passes to callsFake
etagFor(input) == Ok([ETag |-> "\"etag-for-" \o Prop(input, "Key") \o "\""])
FakeHandler(handler, input) ==
    IF handler = "etagFor" THEN etagFor(input) ELSE GenericError("Fake failure")

\* defaultHandlers.get(commandName)(input), as registerDefaultHandlers set it
defaultHandler(command, s, input, t) ==
    CASE command = "PutObject" -> PutObjectHandler(s, input, t)
      [] command = "GetObject" -> GetObjectHandler(s, input)
      [] command = "HeadObject" -> HeadObjectHandler(s, input)
      [] command = "DeleteObject" -> DeleteObjectHandler(s, input)
      [] command = "DeleteObjects" -> DeleteObjectsHandler(s, input)
      [] command = "CopyObject" -> CopyObjectHandler(s, input, t)
      [] command = "CreateBucket" -> CreateBucketHandler(s, input, t)
      [] command = "DeleteBucket" -> DeleteBucketHandler(s, input)
      [] command = "ListObjects" -> ListObjectsHandler(s, input)
      [] command = "ListObjectsV2" -> ListObjectsV2Handler(s, input)
      [] command = "PutObjectTagging" -> PutObjectTaggingHandler(s, input)
      [] command = "DeleteObjectTagging" -> DeleteObjectTaggingHandler(s, input)
      [] command = "CreateMultipartUpload" -> CreateMultipartUploadHandler(s, input, t)
      [] command = "UploadPart" -> UploadPartHandler(s, input, t)
      [] command = "CompleteMultipartUpload" ->
            CompleteMultipartUploadHandler(s, input, t)
      [] command = "AbortMultipartUpload" -> AbortMultipartUploadHandler(s, input)
      [] OTHER -> BucketConfigurationHandler(command, s, input)

\* on(C).resolves(response)
Resolves(command, resp) ==
    /\ commandHandlers' =
          MapSet(commandHandlers, command, [response |-> resp, callCount |-> 0])
    /\ UNCHANGED <<buckets, objects, multipartUploads, uuidCount, now, request, response,
                   changed, lastWrite, replaced, handlers, calls, draining,
                   isInstalled, originalSend, clientInstance, send>>

\* the behaviour resolvesOnce sets: one more response in the list of the
\* existing behaviour, its count kept; existing is << >> when there is none
OnceMore(existing, resp) ==
    [responses |-> Append(IF Has(existing, "responses") THEN existing.responses
                          ELSE << >>, resp),
     callCount |-> IF Has(existing, "callCount") THEN existing.callCount ELSE 0]

\* on(C).resolvesOnce(response)
ResolvesOnce(command, resp) ==
    LET existing == IF command \in DOMAIN commandHandlers
                    THEN commandHandlers[command] ELSE << >>
    IN  /\ Len(OnceMore(existing, resp).responses) <= MaxResponses
        /\ commandHandlers' = MapSet(commandHandlers, command, OnceMore(existing, resp))
        /\ UNCHANGED <<buckets, objects, multipartUploads, uuidCount, now, request,
                       response, changed, lastWrite, replaced, handlers, calls, draining,
                   isInstalled, originalSend, clientInstance, send>>

\* on(C).rejects(error)
Rejects(command, error) ==
    /\ commandHandlers' =
          MapSet(commandHandlers, command, [error |-> error, callCount |-> 0])
    /\ UNCHANGED <<buckets, objects, multipartUploads, uuidCount, now, request, response,
                   changed, lastWrite, replaced, handlers, calls, draining,
                   isInstalled, originalSend, clientInstance, send>>

\* on(C).callsFake(handler)
CallsFake(command, handler) ==
    /\ commandHandlers' =
          MapSet(commandHandlers, command, [handler |-> handler, callCount |-> 0])
    /\ UNCHANGED <<buckets, objects, multipartUploads, uuidCount, now, request, response,
                   changed, lastWrite, replaced, handlers, calls, draining,
                   isInstalled, originalSend, clientInstance, send>>

\* commandCalls(C): the calls whose commandName is C's name
commandCalls(command) ==
    LET IsOfCommand(call) == call.commandName = CommandName(command)
    IN  SelectSeq(calls, IsOfCommand)

\* allCalls(): a copy of the history
allCalls == [i \in 1..Len(calls) |-> calls[i]]

\* behavior.callCount++
Called(behavior) == [behavior EXCEPT !.callCount = @ + 1]

\* the behaviour, once counted, throws or returns: it holds an error, a
\* handler, a list of responses that is not empty, or a response
Decides(behavior) ==
    \/ Has(behavior, "error")
    \/ Has(behavior, "handler")
    \/ Has(behavior, "responses") /\ Len(behavior.responses) > 0
    \/ Has(behavior, "response")

\* what it throws or returns: of the list, the response at
\* Math.min(callCount - 1, responses.length - 1)
Outcome(behavior, input) ==
    IF Has(behavior, "error") THEN behavior.error
    ELSE IF Has(behavior, "handler") THEN FakeHandler(behavior.handler, input)
    ELSE IF Has(behavior, "responses") /\ Len(behavior.responses) > 0
    THEN behavior.responses[MinOf({behavior.callCount - 1,
                                   Len(behavior.responses) - 1}) + 1]
    ELSE behavior.response

\* a variant that dispatches before the call is recorded, and records only
\* the calls that did not throw
handleCommandThenRecord(command, input) ==
    LET r == IF command \in handlers
             THEN defaultHandler(command, TheStore, input, now)
             ELSE Reply(TheStore, GenericError("No mock behavior configured"))
    IN  /\ Len(calls) < MaxCalls
        /\ calls' = IF Succeeded(r.response)
                    THEN Append(calls, [commandName |-> CommandName(command),
                                        input |-> input, timestamp |-> now])
                    ELSE calls
        /\ commandHandlers' = commandHandlers
        /\ request' = [op |-> command, input |-> input]
        /\ response' = r.response
        /\ Install(r.s)
        /\ UNCHANGED <<now, handlers, lastWrite, replaced, draining,
                   isInstalled, originalSend, clientInstance, send>>

\* a variant that runs the default handler whatever the user has set
handleCommandByDefault(command, input) ==
    LET r == IF command \in handlers
             THEN defaultHandler(command, TheStore, input, now)
             ELSE Reply(TheStore, GenericError("No mock behavior configured"))
    IN  /\ Len(calls) < MaxCalls
        /\ calls' = Append(calls, [commandName |-> CommandName(command),
                                   input |-> input, timestamp |-> now])
        /\ commandHandlers' = commandHandlers
        /\ request' = [op |-> command, input |-> input]
        /\ response' = r.response
        /\ Install(r.s)
        /\ UNCHANGED <<now, handlers, lastWrite, replaced, draining,
                   isInstalled, originalSend, clientInstance, send>>

\* client.send(command) on an installed mock: the call is recorded, then the
\* behaviour the user set for the command decides, then the default handler,
\* and a command that has neither is refused.  The write history is kept by
\* the handler actions only.
handleCommand(command, input) ==
    LET commandName == CommandName(command)
        mocked == command \in DOMAIN commandHandlers
        behavior == IF mocked THEN Called(commandHandlers[command]) ELSE << >>
        r == IF Decides(behavior) THEN Reply(TheStore, Outcome(behavior, input))
             ELSE IF command \in handlers
             THEN defaultHandler(command, TheStore, input, now)
             ELSE Reply(TheStore,
                        GenericError("No mock behavior configured for " \o commandName
                                     \o ". Either configure a mock with mockClient.on("
                                     \o commandName \o ").resolves(...) "
                                     \o "or register a default handler."))
    IN  /\ Len(calls) < MaxCalls
        /\ calls' = Append(calls, [commandName |-> commandName, input |-> input,
                                   timestamp |-> now])
        /\ commandHandlers' =
              IF mocked THEN MapSet(commandHandlers, command, behavior)
              ELSE commandHandlers
        /\ request' = [op |-> command, input |-> input]
        /\ response' = r.response
        /\ Install(r.s)
        /\ UNCHANGED <<now, handlers, lastWrite, replaced, draining,
                   isInstalled, originalSend, clientInstance, send>>

\* the clients of the service the mock can be installed on
Clients == {"s3Client", "otherClient"}

\* a variant that installs over an installation
installAgain(client) ==
    /\ request' = [op |-> "install", input |-> [client |-> client]]
    /\ response' = Ok(<< >>)
    /\ clientInstance' = client
    /\ originalSend' = send[client]
    /\ send' = [send EXCEPT ![client] = "handleCommand"]
    /\ isInstalled' = TRUE
    /\ UNCHANGED <<buckets, objects, multipartUploads, uuidCount, now, changed,
                   lastWrite, replaced, handlers, commandHandlers, calls, draining>>

\* install(client): refused while the mock is installed; otherwise the
\* client's send is kept and replaced by one that calls handleCommand
install(client) ==
    /\ request' = [op |-> "install", input |-> [client |-> client]]
    /\ IF isInstalled
       THEN /\ response' = GenericError("Mock is already installed. Call restore() first.")
            /\ UNCHANGED <<isInstalled, originalSend, clientInstance, send>>
       ELSE /\ response' = Ok(<< >>)
            /\ clientInstance' = client
            /\ originalSend' = send[client]
            /\ send' = [send EXCEPT ![client] = "handleCommand"]
            /\ isInstalled' = TRUE
    /\ UNCHANGED <<buckets, objects, multipartUploads, uuidCount, now, changed,
                   lastWrite, replaced, handlers, commandHandlers, calls, draining>>

\* restore(): the client gets the kept send back, if there is one
restore ==
    /\ request' = [op |-> "restore", input |-> << >>]
    /\ response' = Ok(<< >>)
    /\ send' = IF clientInstance # "null" /\ originalSend # "null"
               THEN [send EXCEPT ![clientInstance] = originalSend]
               ELSE send
    /\ clientInstance' = "null"
    /\ originalSend' = "null"
    /\ isInstalled' = FALSE
    /\ UNCHANGED <<buckets, objects, multipartUploads, uuidCount, now, changed,
                   lastWrite, replaced, handlers, commandHandlers, calls, draining>>

\* client.send(command) on a client whose send the mock has replaced
Send(client, command, input) ==
    /\ send[client] = "handleCommand"
    /\ handleCommand(command, input)

\* client.send(command) on a client that has its own send: the request
\* leaves for the service, and the mock sees nothing of it
SendOriginal(client, command, input) ==
    /\ send[client] = "send"
    /\ request' = [op |-> command, input |-> input]
    /\ response' = [kind |-> "Service"]
    /\ UNCHANGED <<buckets, objects, multipartUploads, uuidCount, now, changed,
                   lastWrite, replaced, handlers, commandHandlers, calls, draining,
                   isInstalled, originalSend, clientInstance, send>>

\* S3MockClient.reset(): the client's behaviours and calls, then the store
Reset ==
    /\ request' = [op |-> "reset", input |-> << >>]
    /\ response' = Ok(<< >>)
    /\ handlers' = MockClientReset(handlers)
    /\ commandHandlers' = << >>
    /\ calls' = << >>
    /\ draining' = draining
    /\ UNCHANGED <<isInstalled, originalSend, clientInstance, send>>
    /\ Install(reset(TheStore))
    /\ now' = now
    /\ lastWrite' = << >>
    /\ replaced' = "none"

\* time passes between two operations
Tick ==
    /\ now < MaxTime
    /\ now' = now + 1
    /\ UNCHANGED <<buckets, objects, multipartUploads, uuidCount, request, response,
                   changed, lastWrite, replaced, handlers, commandHandlers,
          calls, draining,
                   isInstalled, originalSend, clientInstance, send>>

Init ==
    /\ buckets = << >>
    /\ objects = << >>
    /\ multipartUploads = << >>
    /\ uuidCount = 0
    /\ now = 0
    /\ request = [op |-> "none", input |-> << >>]
    /\ response = [kind |-> "none"]
    /\ changed = FALSE
    /\ lastWrite = << >>
    /\ replaced = "none"
    /\ handlers = defaultHandlers
    /\ commandHandlers = << >>
    /\ calls = << >>
    /\ draining = << >>
    /\ isInstalled = FALSE
    /\ originalSend = "null"
    /\ clientInstance = "null"
    /\ send = [client \in Clients |-> "send"]

(***************************************************************************)
(* Spec: the store under every operation that writes it, read back by      *)
(* GetObject.  Two buckets, three object slots, one multipart upload.      *)
(***************************************************************************)
BucketNames == {"x", "y"}
SlotA == [Bucket |-> "x", Key |-> "a"]
SlotB == [Bucket |-> "x", Key |-> "b"]
Addresses == {SlotA, SlotB, [Bucket |-> "y", Key |-> "a"]}

\* body and description of a PutObject
Described == [Body |-> [type |-> "Buffer", bytes |-> <<97>>],
              ContentType |-> "text/plain", Metadata |-> "m1"]
Plain == [Body |-> [type |-> "string", text |-> "ab"]]

PutInputs == {SlotA @@ Described, SlotA @@ Plain, SlotB @@ Plain}
BatchInputs == {[Bucket |-> "x", Objects |-> << [Key |-> "b"], [Key |-> "a"] >>]}
CopyInputs ==
    {SlotB @@ [CopySource |-> "x/a"],
     SlotB @@ [CopySource |-> "/x/%61", ContentType |-> "image/png"]}
TaggingInputs == {SlotA @@ [Tagging |-> [TagSet |-> "[env=dev]"]]}
BucketInputs == {[Bucket |-> b] : b \in BucketNames}

InitiateInputs == {SlotB @@ [ContentType |-> "text/csv", Metadata |-> "m2"]}
UploadInputs == {SlotB @@ [UploadId |-> UploadId(1)]}
PartInputs ==
    {u @@ part : u \in UploadInputs,
                 part \in {[PartNumber |-> 1, Body |-> [type |-> "Buffer", bytes |-> <<97>>]],
                           [PartNumber |-> 2, Body |-> [type |-> "string", text |-> "b"]]}}
PartA == [PartNumber |-> 1, ETag |-> QuotedDigest(<<97>>)]
PartB == [PartNumber |-> 2, ETag |-> QuotedDigest(<<98>>)]
CompleteInputs ==
    {u @@ [Parts |-> p] : u \in UploadInputs,
                          p \in {<<PartA>>, <<PartA, PartB>>, <<PartB, PartA>>}}

Next ==
    \/ \E input \in PutInputs : PutObject(input)
    \/ \E input \in Addresses : GetObject(input)
    \/ \E input \in Addresses : DeleteObject(input)
    \/ \E input \in BatchInputs : DeleteObjects(input)
    \/ \E input \in CopyInputs : CopyObject(input)
    \/ \E input \in TaggingInputs : PutObjectTagging(input)
    \/ \E input \in BucketInputs : DeleteBucket(input)
    \/ \E input \in InitiateInputs : CreateMultipartUpload(input)
    \/ \E input \in PartInputs : UploadPart(input)
    \/ \E input \in CompleteInputs : CompleteMultipartUpload(input)
    \/ \E input \in UploadInputs : AbortMultipartUpload(input)
    \/ Reset

Spec == Init /\ [][Next]_vars

(***************************************************************************)
(* Properties of Spec                                                      *)
(***************************************************************************)
Slot(input) == <<input.Bucket, input.Key>>

\* a GetObject without Range and without conditions
IsPlainGet(req) == req.op = "GetObject" /\ DOMAIN req.input = {"Bucket", "Key"}

\* this step is a plain GetObject of the key the PutObject before it wrote
PutThenGet ==
    /\ request.op = "PutObject"
    /\ Succeeded(response)
    /\ IsPlainGet(request')
    /\ Slot(request'.input) = Slot(request.input)

\* the bytes of the Body a PutObject request carries
BodyBytes(input) ==
    CASE input.Body.type = "string" -> utf8(input.Body.text)
      [] OTHER -> input.Body.bytes

\* C1: a successful PutObject(B,K,body) immediately followed by a plain
\* GetObject(B,K) returns the bytes of body, their number as ContentLength,
\* and as ETag the quoted digest of body, which is the ETag PutObject returned
PutGetRoundTrip ==
    [][PutThenGet =>
          /\ Succeeded(response')
          /\ response'.Body = BodyBytes(request.input)
          /\ response'.ContentLength = Len(BodyBytes(request.input))
          /\ response'.ETag = "\"" \o md5hex(BodyBytes(request.input)) \o "\""
          /\ response'.ETag = response.ETag]_vars

\* a plain GetObject has answered with the two bytes PutObject stored from a string
PutGetRoundTripWitness ==
    /\ IsPlainGet(request)
    /\ Succeeded(response)
    /\ response.Body = <<97, 98>>
    /\ Slot(request.input) \in DOMAIN lastWrite
    /\ lastWrite[Slot(request.input)].by = "PutObject"

\* what GetObject and GetObjectTagging show of a key
Visible(a) ==
    LET got == GetObjectHandler(TheStore, a).response
        tagged == GetObjectTaggingHandler(TheStore, a).response
    IN  IF Succeeded(got) /\ Succeeded(tagged)
        THEN [body |-> got.Body, contentType |-> got.ContentType,
              metadata |-> got.Metadata, tags |-> tagged.TagSet]
        ELSE [error |-> got.name]

\* what the last write to a key put there
Expected(a) ==
    LET w == lastWrite[Slot(a)]
    IN  [body |-> w.body, contentType |-> w.contentType, metadata |-> w.metadata,
         tags |-> w.tags]

\* C2: GetObject(B,K) returns the body and the description of the most recent
\* successful write to (B,K) not followed by a delete or a reset, and nothing
\* of an earlier write; a key with no such write is not found
LatestWriteWins ==
    \A a \in Addresses :
        IF Slot(a) \in DOMAIN lastWrite
        THEN Visible(a) = Expected(a)
        ELSE Visible(a).error \in {"NoSuchKey", "NoSuchBucket"}

\* a copy without a description has replaced a completed upload, which had one
LatestWriteWinsWitness ==
    /\ request.op = "CopyObject"
    /\ Succeeded(response)
    /\ lastWrite[Slot(request.input)].by = "CopyObject"
    /\ replaced = "CompleteMultipartUpload"
    /\ Visible(request.input).contentType = undefined

\* this step is a DeleteObject on a bucket that exists
DeleteStep ==
    /\ request'.op = "DeleteObject"
    /\ bucketExists(TheStore, request'.input.Bucket)

\* C3: DeleteObject(B,K) on an existing bucket returns 200 whether or not K
\* exists, leaves K absent and every other object as it was, and a second
\* DeleteObject(B,K) succeeds and leaves the store as the first left it
DeleteIsIdempotent ==
    [][DeleteStep =>
          /\ Succeeded(response')
          /\ response'.httpStatusCode = 200
          /\ ObjectSlots(TheStore') = ObjectSlots(TheStore) \ {Slot(request'.input)}
          /\ \A slot \in ObjectSlots(TheStore') :
                TheStore'.objects[slot[1]][slot[2]] = TheStore.objects[slot[1]][slot[2]]
          /\ DeleteObjectHandler(TheStore', request'.input)
                = Reply(TheStore', response')
          /\ (request = request' /\ Succeeded(response) => TheStore' = TheStore)]_vars

\* a DeleteObject of a key that is absent has succeeded beside another object
DeleteIsIdempotentWitness ==
    /\ request.op = "DeleteObject"
    /\ Succeeded(response)
    /\ ~changed
    /\ ~objectExists(TheStore, request.input.Bucket, request.input.Key)
    /\ ObjectSlots(TheStore) # {}

(***************************************************************************)
(* SpecLookup: every handler that looks an object up, asked for a key that *)
(* exists, a key that is absent, and a key in a bucket that is absent      *)
(***************************************************************************)
\* requests that lack a mandatory field
NoBucket == {[Key |-> "a"], [Bucket |-> "", Key |-> "a"]}
NoKey == {[Bucket |-> "x"]}

LookupInputs == Addresses \cup NoBucket \cup NoKey
LookupTaggingInputs ==
    {a @@ [Tagging |-> [TagSet |-> "[env=dev]"]] : a \in Addresses} \cup {SlotA}
CopySources == {"x/a", "/x/%61", "x/b", "y/a", "xa", "x/%"}
LookupCopyInputs == {SlotA @@ [CopySource |-> c] : c \in CopySources} \cup {SlotA}
LookupPartCopyInputs ==
    {u @@ [PartNumber |-> 1, CopySource |-> c] : u \in UploadInputs, c \in CopySources}
        \cup {u @@ [PartNumber |-> 1, CopySource |-> "x/a", CopySourceRange |-> "bytes=1-1"] :
                 u \in UploadInputs}
        \cup UploadInputs

NextLookup ==
    \/ \E input \in {SlotA @@ Plain} : PutObject(input)
    \/ \E input \in BucketInputs \cup {<< >>} : CreateBucket(input)
    \/ \E input \in InitiateInputs : CreateMultipartUpload(input)
    \/ \E input \in LookupInputs : GetObject(input)
    \/ \E input \in LookupInputs : HeadObject(input)
    \/ \E input \in LookupInputs : DeleteObject(input)
    \/ \E input \in LookupInputs : GetObjectAttributes(input)
    \/ \E input \in LookupInputs : GetObjectTagging(input)
    \/ \E input \in LookupTaggingInputs : PutObjectTagging(input)
    \/ \E input \in LookupInputs : DeleteObjectTagging(input)
    \/ \E input \in LookupInputs : GetObjectAcl(input)
    \/ \E input \in LookupInputs : PutObjectAcl(input)
    \/ \E input \in LookupCopyInputs : CopyObject(input)
    \/ \E input \in LookupPartCopyInputs : UploadPartCopy(input)

SpecLookup == Init /\ [][NextLookup]_vars

\* the operations that look up an object named by bucket and key
ObjectLookups ==
    {"GetObject", "HeadObject", "DeleteObject", "GetObjectAttributes", "GetObjectTagging",
     "PutObjectTagging", "DeleteObjectTagging", "GetObjectAcl", "PutObjectAcl"}
SourceLookups == {"CopyObject", "UploadPartCopy"}

\* the request names a bucket and a key in full, and the upload it adds to exists
NamesObject(req) ==
    CASE req.op \in ObjectLookups ->
            /\ ~Falsy(req.input, "Bucket") /\ ~Falsy(req.input, "Key")
            /\ (req.op = "PutObjectTagging" => Has(req.input, "Tagging"))
      [] req.op \in SourceLookups ->
            /\ ~Falsy(req.input, "CopySource")
            /\ copySourceMatch(req.input.CopySource)[1]
            /\ ~decodeURIComponent(copySourceMatch(req.input.CopySource)[3]).threw
            /\ (req.op = "UploadPartCopy" => req.input.UploadId \in DOMAIN multipartUploads)
      [] OTHER -> FALSE

\* the bucket of the object the request looks up
LookedUpBucket(req) ==
    IF req.op \in SourceLookups THEN copySourceMatch(req.input.CopySource)[2]
    ELSE req.input.Bucket

NoSuchBucketAnswered(op) ==
    /\ request.op = op
    /\ NamesObject(request)
    /\ ~bucketExists(TheStore, LookedUpBucket(request))
    => /\ response.kind = "AwsError"
       /\ response.name = "NoSuchBucket"
       /\ response.httpStatusCode = 404

\* C4: a handler that looks up an object (the copy source, for CopyObject and
\* UploadPartCopy) answers a request for a key in a bucket that does not
\* exist with NoSuchBucket (404), never with a no-such-key error
BucketCheckedFirst == \A op \in ObjectLookups \cup SourceLookups : NoSuchBucketAnswered(op)

(***************************************************************************)
(* SpecList: one bucket filled key by key, and listed                      *)
(***************************************************************************)
ListKeys == {"a", "B", "a/a", "a/B", "a/a/b"}
ListBucket == [Bucket |-> "x"]
Optional(field, values) == {<< >>} \cup {field :> v : v \in values}

\* listings in one page
WholeInputs ==
    {ListBucket @@ p @@ d : p \in Optional("Prefix", {"a", "a/"}),
                            d \in Optional("Delimiter", {"/"})}
\* listings page by page
PageTokens == {"a", "B", "a/a"}
PagedInputs ==
    {ListBucket @@ p @@ [MaxKeys |-> m] @@ t :
        p \in Optional("Prefix", {"a"}), m \in {0, 1, 2},
        t \in Optional("ContinuationToken", PageTokens)}
        \cup {ListBucket @@ [ContinuationToken |-> t] : t \in PageTokens}
        \cup {ListBucket @@ [Delimiter |-> "/", MaxKeys |-> 1] @@ t :
                 t \in Optional("StartAfter", {"a"})}
MarkerInputs ==
    {ListBucket @@ m @@ t : m \in Optional("MaxKeys", {1}),
                            t \in Optional("Marker", {"a", "B"})}

NextList ==
    \/ \E k \in ListKeys : PutObject(ListBucket @@ [Key |-> k] @@ Plain)
    \/ \E input \in WholeInputs \cup PagedInputs \cup {<< >>, [Bucket |-> "y"]} :
          ListObjectsV2(input)
    \/ \E input \in WholeInputs \cup MarkerInputs \cup {<< >>, [Bucket |-> "y"]} :
          ListObjects(input)

SpecList == Init /\ [][NextList]_vars

IsListing(req) == req.op \in {"ListObjectsV2", "ListObjects"}

\* the keys of the bucket a listing names that start with its prefix
Matches(req) ==
    {k \in DOMAIN objects[req.input.Bucket] :
        startsWith(k, IF Has(req.input, "Prefix") THEN req.input.Prefix ELSE "")}

\* a listing that names no key to start after
FromTheStart(req) ==
    DOMAIN req.input \cap {"StartAfter", "ContinuationToken", "Marker"} = {}

\* the keys of S in ascending order of their code units
Ascending(S) == sortDefault(S)

\* C5: a listing with prefix P, no delimiter, no start key and maxKeys at
\* least the number of matches returns the keys that start with P, each once,
\* in ascending lexicographic order, and is not truncated
ListIsSorted ==
    /\ IsListing(request)
    /\ Succeeded(response)
    /\ FromTheStart(request)
    /\ ~Has(request.input, "Delimiter")
    /\ response.MaxKeys >= Cardinality(Matches(request))
    /\ (Has(request.input, "MaxKeys") => request.input.MaxKeys # 0)
    => /\ response.Contents = Ascending(Matches(request))
       /\ ~response.IsTruncated

\* d occurs in text
Contains(text, d) == \E i \in 1..Len(text) : startsWith(sliceFrom(text, i - 1), d)

\* the shortest start of text that ends with d
ThroughFirst(text, d) ==
    LET ends == {i \in 1..Len(text) : i >= Len(d) /\ SubSeq(text, i - Len(d) + 1, i) = d}
    IN  SubSeq(text, 1, MinOf(ends))

NoDuplicates(q) == Cardinality(SeqRange(q)) = Len(q)
IsAscending(q) == \A i \in 1..Len(q) : \A j \in 1..Len(q) : i < j => jsLess(q[i], q[j])

IsFirstPage(req) ==
    /\ req.op = "ListObjectsV2"
    /\ DOMAIN req.input \subseteq {"Bucket", "Prefix", "MaxKeys"}
    /\ Has(req.input, "MaxKeys")
    /\ req.input.MaxKeys > 0
    /\ bucketExists(TheStore, req.input.Bucket)
    /\ req.input.MaxKeys < Cardinality(Matches(req))

\* this step asks for the page after the one just returned, with room for the rest
PageTurn ==
    /\ IsFirstPage(request)
    /\ request'.op = "ListObjectsV2"
    /\ DOMAIN request'.input \ {"MaxKeys"} = (DOMAIN request.input \ {"MaxKeys"})
                                                \cup {"ContinuationToken"}
    /\ \A f \in DOMAIN request.input \ {"MaxKeys"} : request'.input[f] = request.input[f]
    /\ request'.input.ContinuationToken = Prop(response, "NextContinuationToken")
    /\ (Has(request'.input, "MaxKeys")
          => request'.input.MaxKeys >= Cardinality(Matches(request)) - request.input.MaxKeys)

\* C7: with N matching keys and maxKeys = M, 0 < M < N, the first call returns
\* the M smallest keys, isTruncated = true and a token; the call that passes
\* the token on returns the other N - M keys: no key twice, no key left out.
\* Smallest is read in the order of the code units or in the order of the
\* listing, whichever fits.
PagesCoverKeys ==
    [][PageTurn =>
          LET M == request.input.MaxKeys
              Paged(all) ==
                  /\ response.Contents = SubSeq(all, 1, M)
                  /\ response'.Contents = SubSeq(all, M + 1, Len(all))
          IN  /\ response.IsTruncated
              /\ response.NextContinuationToken # undefined
              /\ Succeeded(response')
              /\ \/ Paged(Ascending(Matches(request)))
                 \/ Paged(sortLocale(Matches(request)))]_vars

(***************************************************************************)
(* SpecGet: one object, written at different times with different bodies,  *)
(* and read with Range and with the conditional fields                     *)
(***************************************************************************)
Bodies == {<< >>, <<97>>, <<97, 98, 99>>}
ETags == {QuotedDigest(<<97>>), QuotedDigest(<<97, 98, 99>>)}
Times == 0..MaxTime
Ranges == {"bytes=0-0", "bytes=1-", "bytes=-1", "bytes=1-9", "bytes=2-1", "bytes=3-",
           "bytes=-", "bytes=a-b", "0-1"}

Conditions ==
    {m @@ n @@ since @@ until :
        m \in Optional("IfMatch", ETags), n \in Optional("IfNoneMatch", ETags),
        since \in Optional("IfModifiedSince", Times),
        until \in Optional("IfUnmodifiedSince", Times)}
        \cup {[IfMatch |-> ""], [IfNoneMatch |-> ""]}
RangeInputs ==
    {SlotA @@ [Range |-> r] : r \in Ranges}
        \cup {SlotA @@ [Range |-> "bytes=0-0"] @@ c :
                 c \in {[IfMatch |-> e] : e \in ETags} \cup {[IfNoneMatch |-> e] : e \in ETags}}
        \cup {SlotB @@ [Range |-> "bytes=0-0"]}
ConditionInputs == {SlotA @@ c : c \in Conditions} \cup {SlotB @@ [IfMatch |-> ""]}

NextGet ==
    \/ \E b \in Bodies : PutObject(SlotA @@ [Body |-> [type |-> "Buffer", bytes |-> b]])
    \/ Tick
    \/ \E input \in RangeInputs \cup ConditionInputs : GetObject(input)
    \/ \E input \in ConditionInputs : HeadObject(input)

SpecGet == Init /\ [][NextGet]_vars

\* the object a request names, once its handler has found it
Found == getObject(TheStore, request.input.Bucket, request.input.Key)
WasFound ==
    /\ objectExists(TheStore, request.input.Bucket, request.input.Key)
    /\ ~changed

\* Range 'bytes=s-e' as written: <<s, e>>, -1 for a bound left out
RangeBounds ==
    ("bytes=0-0" :> <<0, 0>>) @@ ("bytes=1-" :> <<1, -1>>) @@ ("bytes=-1" :> <<-1, 1>>)
    @@ ("bytes=1-9" :> <<1, 9>>) @@ ("bytes=2-1" :> <<2, 1>>) @@ ("bytes=3-" :> <<3, -1>>)
    @@ ("bytes=-" :> <<-1, -1>>)

\* C8: GetObject with Range 'bytes=s-e' on an object of length L, s defaulting
\* to 0, e defaulting to and clamped at L-1: when s <= e and s < L the body is
\* bytes s..e, ContentLength is e-s+1 and ContentRange is 'bytes s-e/L';
\* otherwise the whole body is returned with ContentLength L and no
\* ContentRange; no error is raised and the stored object is not changed
RangeIsServed ==
    /\ request.op = "GetObject"
    /\ DOMAIN request.input = {"Bucket", "Key", "Range"}
    /\ request.input.Range \in DOMAIN RangeBounds
    /\ objectExists(TheStore, request.input.Bucket, request.input.Key)
    => LET L == Len(lastWrite[Slot(request.input)].body)
           asked == RangeBounds[request.input.Range]
           s == IF asked[1] = -1 THEN 0 ELSE asked[1]
           e == IF asked[2] = -1 \/ asked[2] > L - 1 THEN L - 1 ELSE asked[2]
           stored == lastWrite[Slot(request.input)].body
       IN  /\ Succeeded(response)
           /\ ~changed
           /\ Found.body = stored
           /\ IF s <= e /\ s < L
              THEN /\ response.Body = [i \in 1..(e - s + 1) |-> stored[s + i]]
                   /\ response.ContentLength = e - s + 1
                   /\ response.ContentRange
                        = "bytes " \o ToString(s) \o "-" \o ToString(e) \o "/" \o ToString(L)
              ELSE /\ response.Body = stored
                   /\ response.ContentLength = L
                   /\ response.ContentRange = undefined

\* a range that ends past the object has been served up to the last byte
RangeIsServedWitness ==
    /\ request.op = "GetObject"
    /\ DOMAIN request.input = {"Bucket", "Key", "Range"}
    /\ request.input.Range = "bytes=1-9"
    /\ Succeeded(response)
    /\ response.Body = <<98, 99>>
    /\ response.ContentRange = "bytes 1-2/3"

\* C9: for an existing object, GetObject with IfMatch equal to the current
\* ETag succeeds with the body; with another non-empty IfMatch it fails with
\* PreconditionFailed (412); with IfNoneMatch equal to the current ETag it
\* returns status 304 without a body and raises no error
ETagConditions ==
    /\ request.op = "GetObject"
    /\ WasFound
    => /\ DOMAIN request.input = {"Bucket", "Key", "IfMatch"}
          /\ request.input.IfMatch = Found.etag
          => /\ Succeeded(response)
             /\ response.httpStatusCode = 200
             /\ response.Body = Found.body
       /\ DOMAIN request.input = {"Bucket", "Key", "IfMatch"}
          /\ request.input.IfMatch \notin {Found.etag, ""}
          => /\ response.kind = "AwsError"
             /\ response.name = "PreconditionFailed"
             /\ response.httpStatusCode = 412
       /\ DOMAIN request.input = {"Bucket", "Key", "IfNoneMatch"}
          /\ request.input.IfNoneMatch = Found.etag
          => /\ Succeeded(response)
             /\ response.httpStatusCode = 304
             /\ "Body" \notin DOMAIN response

\* GetObject with IfNoneMatch equal to the current ETag has answered 304
ETagConditionsWitness ==
    /\ request.op = "GetObject"
    /\ WasFound
    /\ DOMAIN request.input = {"Bucket", "Key", "IfNoneMatch"}
    /\ request.input.IfNoneMatch = Found.etag
    /\ response.httpStatusCode = 304

\* what each conditional field of the request says of the object found
IfMatchFails == ~Falsy(request.input, "IfMatch") /\ request.input.IfMatch # Found.etag
IfNoneMatchHits ==
    ~Falsy(request.input, "IfNoneMatch") /\ request.input.IfNoneMatch = Found.etag
NotModifiedSince ==
    /\ Has(request.input, "IfModifiedSince")
    /\ request.input.IfModifiedSince >= Found.lastModified
ModifiedAfter ==
    /\ Has(request.input, "IfUnmodifiedSince")
    /\ Found.lastModified > request.input.IfUnmodifiedSince

StatusOf(resp) == resp.httpStatusCode

\* C10: GetObject and HeadObject evaluate IfMatch, IfNoneMatch,
\* IfModifiedSince, IfUnmodifiedSince in this order and the first that
\* triggers decides: a failing IfMatch gives 412 whatever the others say; if
\* not, a matching IfNoneMatch or an IfModifiedSince at or after the last
\* modification gives 304 even when IfUnmodifiedSince would fail;
\* IfUnmodifiedSince gives 412 only when the object was modified after the
\* given time and none of the others triggered
ConditionsInOrder ==
    /\ request.op \in {"GetObject", "HeadObject"}
    /\ WasFound
    /\ ~Has(request.input, "Range")
    => /\ IfMatchFails => StatusOf(response) = 412 /\ response.kind = "AwsError"
       /\ ~IfMatchFails /\ (IfNoneMatchHits \/ NotModifiedSince)
             => StatusOf(response) = 304 /\ Succeeded(response)
       /\ ~IfMatchFails /\ ~IfNoneMatchHits /\ ~NotModifiedSince /\ ModifiedAfter
             => StatusOf(response) = 412 /\ response.kind = "AwsError"
       /\ ~IfMatchFails /\ ~IfNoneMatchHits /\ ~NotModifiedSince /\ ~ModifiedAfter
             => StatusOf(response) = 200 /\ Succeeded(response)

\* HeadObject has answered 304 to an IfModifiedSince at the time of the last
\* modification although IfUnmodifiedSince names an earlier time
ConditionsInOrderWitness ==
    /\ request.op = "HeadObject"
    /\ WasFound
    /\ ~IfMatchFails
    /\ NotModifiedSince
    /\ ModifiedAfter
    /\ StatusOf(response) = 304

(***************************************************************************)
(* SpecUpload: two multipart uploads from initiation to completion or      *)
(* abort, beside an object put at the key of one of them                   *)
(***************************************************************************)
UploadIds == {UploadId(n) : n \in 1..MaxUploads}
TwoInitiations == InitiateInputs \cup {SlotA}
NamedUploads == {SlotB @@ [UploadId |-> u] : u \in UploadIds}

\* the body every request uploads under a part number
PartBody(n) == IF n = 1 THEN <<97>> ELSE <<98>>
NumberedParts ==
    {u @@ [PartNumber |-> n, Body |-> [type |-> "Buffer", bytes |-> PartBody(n)]] :
        u \in NamedUploads, n \in {1, 2}}
\* a reference to part 1 that declares the ETag of other bytes
PartMismatch == [PartNumber |-> 1, ETag |-> QuotedDigest(<<98>>)]
PartLists ==
    {<< >>, <<PartA>>, <<PartA, PartB>>, <<PartB, PartA>>, <<PartMismatch>>,
     <<PartB, PartMismatch>>}
CompletionInputs == {u @@ [Parts |-> p] : u \in NamedUploads, p \in PartLists}
PartCopyInputs == {u @@ [PartNumber |-> 2, CopySource |-> "x/b"] : u \in NamedUploads}

NextUpload ==
    \/ \E input \in {SlotB @@ Plain} : PutObject(input)
    \/ \E input \in TwoInitiations : CreateMultipartUpload(input)
    \/ \E input \in NumberedParts : UploadPart(input)
    \/ \E input \in PartCopyInputs : UploadPartCopy(input)
    \/ \E input \in CompletionInputs : CompleteMultipartUpload(input)
    \/ \E input \in NamedUploads : AbortMultipartUpload(input)
    \/ \E input \in NamedUploads : ListParts(input)
    \/ \E input \in BucketInputs : ListMultipartUploads(input)

SpecUpload == Init /\ [][NextUpload]_vars

\* the bytes of the referenced parts, one after the other as the request
\* lists them
RECURSIVE InRequestOrder(_)
InRequestOrder(parts) ==
    IF parts = << >> THEN << >>
    ELSE PartBody(Head(parts).PartNumber) \o InRequestOrder(Tail(parts))

\* the upload ids ListMultipartUploads returns for a bucket of store s
ListedUploads(s, bucket) ==
    LET listed == ListMultipartUploadsHandler(s, [Bucket |-> bucket]).response.Uploads
    IN  {listed[i].UploadId : i \in 1..Len(listed)}

\* this step completes an upload
Completes ==
    /\ request'.op = "CompleteMultipartUpload"
    /\ Succeeded(response')

\* C11: a completion whose part references all exist with matching ETags
\* stores at the upload's bucket and key the bytes of the parts in the order
\* the request lists them, with the content type and metadata given at
\* initiation; afterwards ListMultipartUploads no longer returns the upload
CompletionConcatenates ==
    [][Completes =>
          LET U == request'.input.UploadId
              upload == multipartUploads[U]
              initiation == IF upload.key = "b" THEN CHOOSE i \in InitiateInputs : TRUE
                            ELSE SlotA
              stored == TheStore'.objects[upload.bucket][upload.key]
          IN  /\ U \in ListedUploads(TheStore, upload.bucket)
              /\ stored.body = InRequestOrder(request'.input.Parts)
              /\ stored.contentLength = Len(stored.body)
              /\ stored.contentType = Prop(initiation, "ContentType")
              /\ stored.metadata = Prop(initiation, "Metadata")
              /\ stored.etag = response'.ETag
              /\ U \notin ListedUploads(TheStore', upload.bucket)]_vars

\* an upload initiated with a content type has been completed from part 2
\* followed by part 1
CompletionConcatenatesWitness ==
    /\ request.op = "CompleteMultipartUpload"
    /\ Succeeded(response)
    /\ request.input.Parts = <<PartB, PartA>>
    /\ objectExists(TheStore, "x", "b")
    /\ getObject(TheStore, "x", "b").body = <<98, 97>>
    /\ getObject(TheStore, "x", "b").contentType = "text/csv"

\* a part reference names a part that was not uploaded, or declares an ETag
\* that is not the stored part's
BadReference(upload, ref) ==
    \/ ref.PartNumber \notin DOMAIN upload.parts
    \/ upload.parts[ref.PartNumber].etag # ref.ETag

\* the parts an upload holds, by ascending number, each with its stored ETag
StoredReferences(upload) ==
    LET numbers == sortNumbers(DOMAIN upload.parts)
    IN  [i \in 1..Len(numbers) |->
            [PartNumber |-> numbers[i], ETag |-> upload.parts[numbers[i]].etag]]

\* this step asks to complete a live upload with a bad part reference
CompletesBadly ==
    /\ request'.op = "CompleteMultipartUpload"
    /\ request'.input.UploadId \in DOMAIN multipartUploads
    /\ \E i \in 1..Len(request'.input.Parts) :
          BadReference(multipartUploads[request'.input.UploadId], request'.input.Parts[i])

\* C12: CompleteMultipartUpload fails when a referenced part was not uploaded
\* or its declared ETag differs from the stored part's; the failure changes
\* neither the upload, its parts nor any object, and the upload can still be
\* completed with a correct part list
FailedCompletionHasNoEffect ==
    [][CompletesBadly =>
          LET U == request'.input.UploadId
              retry == [request'.input EXCEPT
                          !.Parts = StoredReferences(multipartUploads[U])]
          IN  /\ ~Succeeded(response')
              /\ response'.kind \in {"AwsError", "Error"}
              /\ TheStore' = TheStore
              /\ Succeeded(CompleteMultipartUploadHandler(TheStore', retry, now).response)]_vars

\* a completion has failed on the ETag declared for part 1, after the
\* reference to part 2 was verified, beside an object at the upload's key
FailedCompletionHasNoEffectWitness ==
    /\ request.op = "CompleteMultipartUpload"
    /\ request.input.Parts = <<PartB, PartMismatch>>
    /\ response.kind = "Error"
    /\ response.message = "ETag mismatch for part 1"
    /\ request.input.UploadId \in DOMAIN multipartUploads
    /\ multipartUploads[request.input.UploadId].key = "b"
    /\ objectExists(TheStore, "x", "b")

\* the operations that name an upload
UploadOps ==
    {"UploadPart", "UploadPartCopy", "ListParts", "CompleteMultipartUpload",
     "AbortMultipartUpload"}

\* the upload ids issued so far, and those of them that are no longer live
Issued == {UploadId(n) : n \in 1..uuidCount}
Terminated == Issued \ DOMAIN multipartUploads

\* what each operation answers in store s to a request naming upload U
AnswersTo(s, U) ==
    {UploadPartHandler(s, i, now).response : i \in {j \in NumberedParts : j.UploadId = U}}
    \cup {UploadPartCopyHandler(s, i, now).response :
             i \in {j \in PartCopyInputs : j.UploadId = U}}
    \cup {ListPartsHandler(s, i).response : i \in {j \in NamedUploads : j.UploadId = U}}
    \cup {CompleteMultipartUploadHandler(s, i, now).response :
             i \in {j \in CompletionInputs : j.UploadId = U}}
    \cup {AbortMultipartUploadHandler(s, i).response :
             i \in {j \in NamedUploads : j.UploadId = U}}

IsNoSuchUpload(resp) ==
    /\ resp.kind = "AwsError"
    /\ resp.name = "NoSuchUpload"
    /\ resp.httpStatusCode = 404

\* this step completes or aborts an upload
Terminates ==
    /\ request'.op \in {"CompleteMultipartUpload", "AbortMultipartUpload"}
    /\ Succeeded(response')

\* C13: once CompleteMultipartUpload or AbortMultipartUpload of upload U has
\* succeeded, every UploadPart, UploadPartCopy, ListParts,
\* CompleteMultipartUpload and AbortMultipartUpload naming U fails with
\* NoSuchUpload (404) from then on; a new upload never takes the id of an
\* earlier one; an abort creates no object and changes none
TerminatedOnce ==
    [][/\ Terminates =>
             /\ request'.input.UploadId \in DOMAIN multipartUploads
             /\ request'.input.UploadId \notin DOMAIN multipartUploads'
             /\ \A resp \in AnswersTo(TheStore', request'.input.UploadId) :
                   IsNoSuchUpload(resp)
       /\ \A U \in Terminated :
             /\ U \notin DOMAIN multipartUploads'
             /\ (request'.op \in UploadOps /\ request'.input.UploadId = U
                   => IsNoSuchUpload(response') /\ TheStore' = TheStore)
       /\ (request'.op = "CreateMultipartUpload" /\ Succeeded(response')
             => /\ response'.UploadId \notin Issued
                /\ response'.UploadId \in DOMAIN multipartUploads')
       /\ (request'.op = "AbortMultipartUpload" => objects' = objects /\ buckets' = buckets)
      ]_vars

\* UploadPart has been refused for an upload that was aborted, while the
\* upload created after it is live and no object exists
TerminatedOnceWitness ==
    /\ request.op = "UploadPart"
    /\ IsNoSuchUpload(response)
    /\ request.input.UploadId = UploadId(1)
    /\ UploadId(2) \in DOMAIN multipartUploads
    /\ ObjectSlots(TheStore) = {}

(***************************************************************************)
(* SpecBucket: one bucket created, written into, configured and deleted    *)
(***************************************************************************)
TheBucket == [Bucket |-> "x"]
CreateInputs == {TheBucket, TheBucket @@ [ACL |-> "public-read"]}

\* the sub-resources a bucket configuration command reads, puts or deletes
GetCommands ==
    {"GetBucketVersioning", "GetBucketCors", "GetBucketPolicy", "GetBucketAcl",
     "GetBucketEncryption", "GetBucketLifecycleConfiguration", "GetBucketWebsite",
     "GetBucketTagging"}
DeleteCommands ==
    {"DeleteBucketCors", "DeleteBucketPolicy", "DeleteBucketEncryption",
     "DeleteBucketLifecycle", "DeleteBucketWebsite", "DeleteBucketTagging"}
PutRequests ==
    {<<"PutBucketCors", [CORSConfiguration |-> [CORSRules |-> rules]]>> :
        rules \in {"[]", "[cors1]"}}
    \cup {<<"PutBucketCors", [CORSConfiguration |-> << >>]>>}
    \cup {<<"PutBucketPolicy", [Policy |-> "{policy1}"]>>}
    \cup {<<"PutBucketEncryption", [ServerSideEncryptionConfiguration |-> "{sse1}"]>>}
    \cup {<<"PutBucketLifecycleConfiguration",
            [LifecycleConfiguration |-> [Rules |-> rules]]>> : rules \in {"[]", "[rule1]"}}
    \cup {<<"PutBucketLifecycleConfiguration", << >> >>}
    \cup {<<"PutBucketWebsite", [WebsiteConfiguration |-> "{website1}"]>>}
    \cup {<<"PutBucketTagging", [Tagging |-> [TagSet |-> tags]]>> :
             tags \in {"[]", "[tag1]"}}
    \cup {<<"PutBucketTagging", [Tagging |-> << >>]>>}
    \cup {<<"PutBucketVersioning", [VersioningConfiguration |-> v]>> :
             v \in {[Status |-> "Enabled"], << >>}}
    \cup {<<"PutBucketAcl", [AccessControlPolicy |-> [Owner |-> "owner1"]]>>,
          <<"PutBucketAcl", << >> >>}

NextBucket ==
    \/ \E input \in CreateInputs : CreateBucket(input)
    \/ \E input \in {TheBucket} : DeleteBucket(input)
    \/ \E input \in {SlotA @@ Plain, SlotB @@ Plain} : PutObject(input)
    \/ \E input \in {SlotA} : DeleteObject(input)
    \/ \E input \in InitiateInputs : CreateMultipartUpload(input)
    \/ Tick
    \/ \E command \in {"GetBucketPolicy", "DeleteBucketPolicy"} :
          BucketConfiguration(command, TheBucket)
    \/ \E put \in {r \in PutRequests : r[1] = "PutBucketPolicy"} :
          BucketConfiguration(put[1], TheBucket @@ put[2])

SpecBucket == Init /\ [][NextBucket]_vars

(***************************************************************************)
(* SpecConfig: the sub-resources of one bucket put, read and deleted, over *)
(* the lifetimes of the bucket                                             *)
(***************************************************************************)
NextConfig ==
    \/ \E input \in CreateInputs : CreateBucket(input)
    \/ \E input \in {TheBucket} : DeleteBucket(input)
    \/ \E command \in GetCommands : BucketConfiguration(command, TheBucket)
    \/ \E put \in PutRequests : BucketConfiguration(put[1], TheBucket @@ put[2])
    \/ \E command \in DeleteCommands : BucketConfiguration(command, TheBucket)

SpecConfig == Init /\ [][NextConfig]_vars

\* this step asks to delete a bucket that exists
DeletesBucket ==
    /\ request'.op = "DeleteBucket"
    /\ bucketExists(TheStore, request'.input.Bucket)

\* C14: DeleteBucket on a bucket that holds an object fails with
\* BucketNotEmpty (409) and leaves the bucket, its objects and its
\* configuration as they were; on a bucket whose objects were all deleted it
\* succeeds and the bucket exists no more
NonEmptyBucketStays ==
    [][DeletesBucket =>
          LET B == request'.input.Bucket
          IN  IF DOMAIN objects[B] # {}
              THEN /\ response'.kind = "AwsError"
                   /\ response'.name = "BucketNotEmpty"
                   /\ response'.httpStatusCode = 409
                   /\ buckets' = buckets
                   /\ objects' = objects
                   /\ TheStore' = TheStore
              ELSE /\ Succeeded(response')
                   /\ ~bucketExists(TheStore', B)
                   /\ B \notin DOMAIN objects']_vars

\* DeleteBucket has been refused for a bucket that holds an object and has a
\* policy
NonEmptyBucketStaysWitness ==
    /\ request.op = "DeleteBucket"
    /\ response.kind = "AwsError"
    /\ response.name = "BucketNotEmpty"
    /\ objectExists(TheStore, "x", "a")
    /\ Prop(getBucketConfiguration(TheStore, "x"), "policy") = "{policy1}"

\* DeleteBucket has succeeded on a bucket that had been written into
EmptiedBucketGoes ==
    /\ request.op = "DeleteBucket"
    /\ Succeeded(response)
    /\ changed
    /\ multipartUploads # << >>


\* a bucket-not-found error
IsNoSuchBucket(resp) ==
    /\ resp.kind = "AwsError"
    /\ resp.name = "NoSuchBucket"
    /\ resp.httpStatusCode = 404

\* what Get, Head and the two List operations answer in store s for bucket b
ReadsOf(s, b) ==
    {GetObjectHandler(s, [Bucket |-> b, Key |-> k]).response : k \in {"a", "b"}}
    \cup {HeadObjectHandler(s, [Bucket |-> b, Key |-> k]).response : k \in {"a", "b"}}
    \cup {ListObjectsV2Handler(s, [Bucket |-> b]).response,
          ListObjectsHandler(s, [Bucket |-> b]).response}

\* C15: after reset() no bucket, object or multipart upload remains: the
\* store is the one a constructor makes, Get, Head and List on every bucket
\* known before answer NoSuchBucket, every upload id issued before is unknown
\* to the five operations that name it, and the default handlers are still
\* registered and work on the emptied store: a PutObject stores its object
\* in a store that holds nothing else
ResetEmpties ==
    [][request'.op = "reset" =>
          /\ buckets' = << >>
          /\ objects' = << >>
          /\ multipartUploads' = << >>
          /\ TheStore' = [EmptyStore EXCEPT !.uuidCount = uuidCount]
          /\ \A b \in DOMAIN buckets : \A resp \in ReadsOf(TheStore', b) :
                IsNoSuchBucket(resp)
          /\ \A U \in Issued : \A resp \in AnswersTo(TheStore', U) : IsNoSuchUpload(resp)
          /\ handlers' = defaultHandlers
          /\ \A input \in PutInputs :
                LET r == PutObjectHandler(TheStore', input, now)
                IN  /\ Succeeded(r.response)
                    /\ ObjectSlots(r.s) = {<<input.Bucket, input.Key>>}
                    /\ DOMAIN r.s.buckets = {input.Bucket}
                    /\ GetObjectHandler(r.s, [Bucket |-> input.Bucket,
                                              Key |-> input.Key]).response.Body
                          = toBuffer(input)]_vars

\* reset() has cleared a store that held something and in which upload ids
\* had been issued
ResetEmptiesWitness ==
    /\ request.op = "reset"
    /\ changed
    /\ uuidCount = MaxUploads
    /\ TheStore = [EmptyStore EXCEPT !.uuidCount = MaxUploads]


\* C16: a PutObject or a CreateMultipartUpload that names a bucket that does
\* not exist succeeds and creates it with an empty configuration; when the
\* bucket exists its creation date, region and configuration and its other
\* objects stay as they were
WritesVivify ==
    [][request'.op \in {"PutObject", "CreateMultipartUpload"} =>
          LET B == request'.input.Bucket
              K == request'.input.Key
          IN  /\ Succeeded(response')
              /\ bucketExists(TheStore', B)
              /\ IF bucketExists(TheStore, B)
                 THEN /\ buckets'[B].creationDate = buckets[B].creationDate
                      /\ buckets'[B].region = buckets[B].region
                      /\ buckets'[B].configuration = buckets[B].configuration
                      /\ buckets' = buckets
                      /\ \A k \in DOMAIN objects[B] :
                            (request'.op = "PutObject" /\ k = K)
                            \/ (k \in DOMAIN objects'[B] /\ objects'[B][k] = objects[B][k])
                 ELSE /\ getBucketConfiguration(TheStore', B) = << >>
                      /\ buckets'[B].name = B
                      /\ DOMAIN objects'[B] \subseteq {K}]_vars

\* a write has created its bucket
WritesVivifyWitness ==
    /\ request.op \in {"PutObject", "CreateMultipartUpload"}
    /\ Succeeded(response)
    /\ bucketExists(TheStore, "x")
    /\ buckets["x"].region = undefined
    /\ buckets["x"].creationDate = now
    /\ getBucketConfiguration(TheStore, "x") = << >>

\* a write has gone into a bucket that was created earlier, with a region and
\* a canned ACL, and that has a policy and another object
WritesIntoExisting ==
    /\ request.op = "PutObject"
    /\ request.input.Key = "b"
    /\ Succeeded(response)
    /\ bucketExists(TheStore, "x")
    /\ buckets["x"].region = "us-east-1"
    /\ buckets["x"].creationDate < now
    /\ DOMAIN getBucketConfiguration(TheStore, "x") = {"acl", "policy"}
    /\ objectExists(TheStore, "x", "a")


\* the value a copy is to give a descriptive field: the request's when the
\* request supplies it, the source's otherwise
CopiedValue(input, field, source, prop) ==
    IF Has(input, field) THEN input[field] ELSE source[prop]

\* C17: a CopyObject from an existing source makes a destination object with
\* the body of the source and, for content type, user metadata, storage
\* class and tags, the request's value where the request supplies one and the
\* source's value where it does not; the source object is unchanged; a copy
\* from a source that does not exist fails with a not-found error and changes
\* nothing
CopyKeepsDescription ==
    [][request'.op = "CopyObject" =>
          LET input == request'.input
          IN  IF objectExists(TheStore, "x", "a")
              THEN LET source == getObject(TheStore, "x", "a")
                       copy == getObject(TheStore', input.Bucket, input.Key)
                   IN  /\ Succeeded(response')
                       /\ copy.body = source.body
                       /\ copy.contentType =
                             CopiedValue(input, "ContentType", source, "contentType")
                       /\ copy.metadata = CopiedValue(input, "Metadata", source, "metadata")
                       /\ copy.storageClass =
                             CopiedValue(input, "StorageClass", source, "storageClass")
                       /\ copy.tags = source.tags
                       /\ getObject(TheStore', "x", "a") = source
              ELSE /\ response'.kind = "AwsError"
                   /\ response'.httpStatusCode = 404
                   /\ TheStore' = TheStore]_vars


\* a structured error: a name, a message, a status code and a fault class
IsStructuredError(resp) ==
    /\ resp.kind = "AwsError"
    /\ {"name", "message", "httpStatusCode", "fault"} \subseteq DOMAIN resp
    /\ resp.fault \in {"client", "server"}

\* C18: every handler invocation ends in a structured success response or in
\* one structured error with a name, a message, a status code and a fault
\* class; no generic failure of the store escapes a handler untranslated
OutcomesAreStructured ==
    request.op # "none" => (Succeeded(response) \/ IsStructuredError(response))


\* the identity fields, bucket and key, that a request to an object lacks
MissingFields(req) == {f \in {"Bucket", "Key"} : Falsy(req.input, f)}

\* C19: a request to an object that lacks its bucket or its key fails, in
\* every state of the store and before the store is read or changed, with a
\* MissingRequiredParameter error of the client, status 400, whose message
\* names a field that is missing; the store is unchanged
MissingFieldIsNamed ==
    [][(request'.op \in ObjectLookups /\ MissingFields(request') # {}) =>
          /\ IsStructuredError(response')
          /\ response'.name = "MissingRequiredParameter"
          /\ response'.httpStatusCode = 400
          /\ response'.fault = "client"
          /\ \E f \in MissingFields(request') : Contains(response'.message, f)
          /\ TheStore' = TheStore]_vars


\* the sub-resources of a bucket that can be put, read and deleted
SubResources == {"Cors", "Policy", "Encryption", "Lifecycle", "Website", "Tagging"}
GetOf(r) == IF r = "Lifecycle" THEN "GetBucketLifecycleConfiguration" ELSE "GetBucket" \o r
PutOf(r) == IF r = "Lifecycle" THEN "PutBucketLifecycleConfiguration" ELSE "PutBucket" \o r
DeleteOf(r) == "DeleteBucket" \o r

\* the error that says the sub-resource does not exist
NotFoundOf(r) ==
    CASE r = "Cors" -> "NoSuchCORSConfiguration"
      [] r = "Policy" -> "NoSuchBucketPolicy"
      [] r = "Encryption" -> "ServerSideEncryptionConfigurationNotFoundError"
      [] r = "Lifecycle" -> "NoSuchLifecycleConfiguration"
      [] r = "Website" -> "NoSuchWebsiteConfiguration"
      [] r = "Tagging" -> "NoSuchTagSet"

\* what a Get of a sub-resource of the bucket answers in store s
ReadOf(s, command) == BucketConfigurationHandler(command, s, TheBucket).response

IsAbsent(resp, r) ==
    /\ resp.kind = "AwsError"
    /\ resp.name = NotFoundOf(r)
    /\ resp.httpStatusCode = 404

\* the value a successful Get carries
ValueOf(resp) == resp[CHOOSE f \in DOMAIN resp \ {"kind", "httpStatusCode"} : TRUE]

\* the value a Put request carries
PutValue(req) ==
    CASE req.op = "PutBucketCors" -> Prop(req.input.CORSConfiguration, "CORSRules")
      [] req.op = "PutBucketPolicy" -> req.input.Policy
      [] req.op = "PutBucketEncryption" -> req.input.ServerSideEncryptionConfiguration
      [] req.op = "PutBucketLifecycleConfiguration" ->
            Prop(Prop(req.input, "LifecycleConfiguration"), "Rules")
      [] req.op = "PutBucketWebsite" -> req.input.WebsiteConfiguration
      [] req.op = "PutBucketTagging" -> Prop(req.input.Tagging, "TagSet")

\* the grant GetBucketAcl makes up for a bucket without ACL
DefaultAcl ==
    Ok([Owner |-> "default-owner-id",
        Grants |-> << <<"CanonicalUser", "default-owner-id", "FULL_CONTROL">> >>])

\* C20: for CORS, policy, encryption, lifecycle, website and tags, a Get on
\* an existing bucket succeeds with the stored value exactly when the latest
\* successful Put or Delete of that sub-resource since the bucket was created
\* was a Put, a Put of an empty rule list included (status 200, empty list);
\* after a Delete, and on a bucket just created, it fails with the
\* sub-resource's own does-not-exist error, 404. Told step by step: a
\* successful Put makes the Get succeed with the put value, a successful
\* Delete or CreateBucket makes it fail, every other step leaves its answer
\* as it was. GetBucketVersioning never fails on an existing bucket and has no
\* status while none was put; GetBucketAcl gives the default grant for a
\* bucket created without ACL
SubResourceFollowsLastPut ==
    [][bucketExists(TheStore', "x") =>
          /\ \A r \in SubResources :
                LET after == ReadOf(TheStore', GetOf(r))
                IN  CASE request'.op = PutOf(r) /\ Succeeded(response') ->
                            /\ Succeeded(after)
                            /\ after.httpStatusCode = 200
                            /\ ValueOf(after) = PutValue(request')
                      [] request'.op \in {DeleteOf(r), "CreateBucket"}
                         /\ Succeeded(response') -> IsAbsent(after, r)
                      [] OTHER -> after = ReadOf(TheStore, GetOf(r))
          /\ Succeeded(ReadOf(TheStore', "GetBucketVersioning"))
          /\ IF request'.op = "CreateBucket" /\ Succeeded(response')
             THEN /\ ReadOf(TheStore', "GetBucketVersioning").Status = undefined
                  /\ ~Has(request'.input, "ACL") =>
                        ReadOf(TheStore', "GetBucketAcl") = DefaultAcl
             ELSE /\ request'.op # "PutBucketVersioning" =>
                        ReadOf(TheStore', "GetBucketVersioning")
                           = ReadOf(TheStore, "GetBucketVersioning")
                  /\ request'.op # "PutBucketAcl" =>
                        ReadOf(TheStore', "GetBucketAcl") = ReadOf(TheStore, "GetBucketAcl")]_vars


\* a PutBucketLifecycleConfiguration has succeeded and the lifecycle
\* configuration of the bucket does not exist
LifecyclePutUnread ==
    /\ request.op = "PutBucketLifecycleConfiguration"
    /\ Succeeded(response)
    /\ bucketExists(TheStore, "x")
    /\ IsAbsent(ReadOf(TheStore, "GetBucketLifecycleConfiguration"), "Lifecycle")


\* an empty list of CORS rules that was put has been read back
EmptyListReadsBack ==
    /\ request.op = "GetBucketCors"
    /\ Succeeded(response)
    /\ response.httpStatusCode = 200
    /\ response.CORSRules = "[]"


(***************************************************************************)
(* The frame of the bucket configuration commands: two buckets, an object  *)
(* and an upload beside the configuration that is put and deleted          *)
(***************************************************************************)
OtherBucket == [Bucket |-> "y"]
LoggingRequests ==
    {<<"PutBucketLogging", [BucketLoggingStatus |-> status]>> :
        status \in {[LoggingEnabled |-> "{log1}"], << >>}}

\* the field of the configuration that a Put or Delete command names
FieldOf(command) ==
    CASE command \in {"PutBucketVersioning"} -> "versioning"
      [] command \in {"PutBucketCors", "DeleteBucketCors"} -> "cors"
      [] command \in {"PutBucketPolicy", "DeleteBucketPolicy"} -> "policy"
      [] command \in {"PutBucketAcl"} -> "acl"
      [] command \in {"PutBucketEncryption", "DeleteBucketEncryption"} -> "encryption"
      [] command \in {"PutBucketLifecycleConfiguration", "DeleteBucketLifecycle"} ->
            "lifecycle"
      [] command \in {"PutBucketWebsite", "DeleteBucketWebsite"} -> "website"
      [] command \in {"PutBucketTagging", "DeleteBucketTagging"} -> "tags"
      [] command \in {"PutBucketLogging"} -> "logging"

\* the Put requests sent here: every command, with a document and without
FrameRequests ==
    (PutRequests \cup LoggingRequests)
        \ {<<"PutBucketCors", [CORSConfiguration |-> [CORSRules |-> "[]"]]>>,
            <<"PutBucketLifecycleConfiguration",
              [LifecycleConfiguration |-> [Rules |-> "[]"]]>>,
            <<"PutBucketTagging", [Tagging |-> [TagSet |-> "[]"]]>>}
PutCommands == {put[1] : put \in FrameRequests}

NextFrame ==
    \/ \E input \in {TheBucket, OtherBucket @@ [ACL |-> "public-read"]} : CreateBucket(input)
    \/ \E input \in {SlotA @@ Plain} : PutObject(input)
    \/ \E input \in {SlotA} : CreateMultipartUpload(input)
    \/ \E put \in FrameRequests : BucketConfiguration(put[1], TheBucket @@ put[2])
    \/ \E command \in DeleteCommands : BucketConfiguration(command, TheBucket)

SpecFrame == Init /\ [][NextFrame]_vars

\* this step puts or deletes a sub-resource of a bucket that exists
Configures ==
    /\ request'.op \in PutCommands \cup DeleteCommands
    /\ Succeeded(response')

\* C21: a Put or a Delete of one sub-resource of a bucket changes nothing but
\* that field of that bucket's configuration: the bucket's other fields, its
\* name, region and creation date, the other buckets, the objects and the
\* multipart uploads stay as they were; a Delete leaves the field unset and a
\* Put that carries a document leaves the field equal to that document, not
\* merged with the one before
ConfigurationFrame ==
    [][Configures =>
          LET B == request'.input.Bucket
              f == FieldOf(request'.op)
              before == getBucketConfiguration(TheStore, B)
              after == getBucketConfiguration(TheStore', B)
          IN  /\ \A g \in (DOMAIN before \cup DOMAIN after) \ {f} :
                    /\ g \in DOMAIN before
                    /\ g \in DOMAIN after
                    /\ after[g] = before[g]
              /\ [buckets' EXCEPT ![B].configuration = << >>]
                    = [buckets EXCEPT ![B].configuration = << >>]
              /\ objects' = objects
              /\ multipartUploads' = multipartUploads
              /\ request'.op \in DeleteCommands => Prop(after, f) = undefined
              /\ request'.op = "PutBucketVersioning" =>
                    after[f] = request'.input.VersioningConfiguration
              /\ request'.op = "PutBucketLogging" =>
                    after[f] = request'.input.BucketLoggingStatus
              /\ request'.op = "PutBucketPolicy" => after[f] = request'.input.Policy]_vars

\* a policy has been put on a bucket that has its versioning set, beside
\* another bucket with an ACL, an object and an upload
ConfigurationFrameWitness ==
    /\ request.op = "PutBucketPolicy"
    /\ request.input.Bucket = "x"
    /\ Succeeded(response)
    /\ bucketExists(TheStore, "y")
    /\ Has(getBucketConfiguration(TheStore, "y"), "acl")
    /\ DOMAIN getBucketConfiguration(TheStore, "x") = {"versioning", "policy"}
    /\ getBucketConfiguration(TheStore, "x").versioning = [Status |-> "Enabled"]
    /\ objectExists(TheStore, "x", "a")
    /\ multipartUploads # << >>


(***************************************************************************)
(* Batch deletion: keys that exist and keys that do not, a key named       *)
(* twice, an entry without a key, with and without quiet mode              *)
(***************************************************************************)
KeyLists ==
    {<< [Key |-> "b"], [Key |-> "a"] >>, << [Key |-> "a"] >>,
     << [Key |-> "a"], [Key |-> "a"] >>, << [Key |-> "c"], [Key |-> "a"] >>,
     << << >>, [Key |-> "b"] >>}
QuietModes == {<< >>, [Quiet |-> TRUE], [Quiet |-> FALSE]}
BatchDeletions == {TheBucket @@ [Objects |-> keys] @@ quiet :
                      keys \in KeyLists, quiet \in QuietModes}

NextBatch ==
    \/ \E input \in {SlotA @@ Described, SlotB @@ Plain,
                     [Bucket |-> "y", Key |-> "a"] @@ Plain} : PutObject(input)
    \/ \E input \in BatchDeletions : DeleteObjects(input)
    \/ \E input \in Addresses : GetObject(input)

SpecBatch == Init /\ [][NextBatch]_vars

HasKey(entry) == ~Falsy(entry, "Key")

\* the keys a batch deletion names, in the order of the request
RequestedKeys(input) ==
    LET named == SelectSeq(input.Objects, HasKey)
    IN  [i \in 1..Len(named) |-> named[i].Key]

\* C22: DeleteObjects on an existing bucket with a key list that is not
\* empty succeeds as a whole; afterwards no requested key exists, whether it
\* existed before or not, and every other object is as it was; without quiet
\* mode the Deleted list is the requested keys in request order, in quiet
\* mode there is no Deleted list
BatchDeletes ==
    [][(request'.op = "DeleteObjects" /\ bucketExists(TheStore, request'.input.Bucket)) =>
          LET input == request'.input
              keys == RequestedKeys(input)
          IN  /\ Succeeded(response')
              /\ \A i \in 1..Len(keys) : ~objectExists(TheStore', input.Bucket, keys[i])
              /\ \A slot \in ObjectSlots(TheStore) :
                    (slot[1] = input.Bucket /\ \E i \in 1..Len(keys) : keys[i] = slot[2])
                    \/ (/\ objectExists(TheStore', slot[1], slot[2])
                        /\ getObject(TheStore', slot[1], slot[2])
                              = getObject(TheStore, slot[1], slot[2]))
              /\ buckets' = buckets
              /\ IF Has(input, "Quiet") /\ input.Quiet
                 THEN ~Has(response', "Deleted")
                 ELSE response'.Deleted = keys]_vars

\* a batch has deleted a key that existed and one that did not, beside
\* objects it did not name
BatchDeletesWitness ==
    /\ request.op = "DeleteObjects"
    /\ Succeeded(response)
    /\ changed
    /\ Has(response, "Deleted")
    /\ response.Deleted = <<"c", "a">>
    /\ objectExists(TheStore, "x", "b")
    /\ objectExists(TheStore, "y", "a")


\* the request with field `from` named `to`
Renamed(input, from, to) ==
    IF Has(input, from)
    THEN [f \in (DOMAIN input \ {from}) \cup {to} |->
             IF f = to THEN input[from] ELSE input[f]]
    ELSE input

\* a V1 answer and a V2 answer that are the same listing
SameListing(v1, v2) ==
    /\ Succeeded(v1) /\ Succeeded(v2)
    /\ v1.Contents = v2.Contents
    /\ v1.CommonPrefixes = v2.CommonPrefixes
    /\ v1.IsTruncated = v2.IsTruncated
    /\ v1.NextMarker = v2.NextContinuationToken

\* C25: ListObjects and ListObjectsV2 are one listing: with the same bucket,
\* prefix, delimiter and max-keys, and the Marker of V1 given to V2 as
\* StartAfter or as ContinuationToken, both answer the same keys in the same
\* order, the same common prefixes and the same truncation flag, and the
\* NextMarker of V1 is the NextContinuationToken of V2
ListingsAgree ==
    [][/\ (request'.op = "ListObjects" /\ Succeeded(response')) =>
              /\ SameListing(response',
                     ListObjectsV2Handler(TheStore,
                         Renamed(request'.input, "Marker", "StartAfter")).response)
              /\ SameListing(response',
                     ListObjectsV2Handler(TheStore,
                         Renamed(request'.input, "Marker", "ContinuationToken")).response)
       /\ (request'.op = "ListObjectsV2" /\ Succeeded(response')
           /\ ~(Has(request'.input, "StartAfter") /\ Has(request'.input, "ContinuationToken"))) =>
              SameListing(ListObjectsHandler(TheStore,
                              Renamed(Renamed(request'.input, "StartAfter", "Marker"),
                                      "ContinuationToken", "Marker")).response,
                          response')]_vars

\* a V1 listing from a marker has been cut short at one key, with keys left
ListingsAgreeWitness ==
    /\ request.op = "ListObjects"
    /\ Succeeded(response)
    /\ Has(request.input, "Marker")
    /\ response.IsTruncated
    /\ Len(response.Contents) = 1
    /\ response.NextMarker = response.Contents[1]
    /\ Cardinality(DOMAIN objects["x"]) = MaxObjects


\* C28: CreateBucket on a name that exists, whether created by CreateBucket
\* or by a write, fails with BucketAlreadyExists (409) and leaves the bucket,
\* its region, configuration and objects as they were; on a new name it
\* succeeds and the bucket then exists and holds no object
CreateBucketOnce ==
    [][(request'.op = "CreateBucket" /\ now' = now) =>
          LET B == request'.input.Bucket
          IN  IF bucketExists(TheStore, B)
              THEN /\ response'.kind = "AwsError"
                   /\ response'.name = "BucketAlreadyExists"
                   /\ response'.httpStatusCode = 409
                   /\ buckets'[B] = buckets[B]
                   /\ objects'[B] = objects[B]
                   /\ TheStore' = TheStore
              ELSE /\ Succeeded(response')
                   /\ bucketExists(TheStore', B)
                   /\ objects'[B] = << >>
                   /\ buckets'[B].name = B]_vars

\* CreateBucket has been refused for a bucket that a write had created and
\* that holds an object and a policy
CreateBucketOnceWitness ==
    /\ request.op = "CreateBucket"
    /\ response.kind = "AwsError"
    /\ response.name = "BucketAlreadyExists"
    /\ bucketExists(TheStore, "x")
    /\ buckets["x"].region = undefined
    /\ objectExists(TheStore, "x", "a")
    /\ Prop(getBucketConfiguration(TheStore, "x"), "policy") = "{policy1}"


(***************************************************************************)
(* Parts uploaded again: part 1 with two bodies of different length        *)
(***************************************************************************)
PartBodies == {<<1, <<97>> >>, <<1, <<98, 98>> >>, <<2, <<98>> >>}
RepeatedParts ==
    {u @@ [PartNumber |-> p[1], Body |-> [type |-> "Buffer", bytes |-> p[2]]] :
        u \in NamedUploads, p \in PartBodies}
PartReferences ==
    {<< [PartNumber |-> p[1], ETag |-> QuotedDigest(p[2])] >> : p \in PartBodies}
        \cup {<< [PartNumber |-> 1, ETag |-> QuotedDigest(<<98, 98>>)], PartB >>}

NextParts ==
    \/ \E input \in {SlotB} : CreateMultipartUpload(input)
    \/ \E input \in RepeatedParts : UploadPart(input)
    \/ \E input \in NamedUploads : ListParts(input)
    \/ \E input \in {u @@ [Parts |-> p] : u \in NamedUploads, p \in PartReferences} :
          CompleteMultipartUpload(input)

SpecParts == Init /\ [][NextParts]_vars

\* this step stores a part
StoresPart ==
    /\ request'.op = "UploadPart"
    /\ Succeeded(response')

\* C29: the parts of an upload are keyed by part number: uploading part n
\* again replaces the bytes, the size and the ETag of part n and leaves the
\* other parts of the upload, the other uploads and the objects as they
\* were; ListParts then shows one entry for each part number, with the new
\* ETag and size for n; and a completion that names n then takes the bytes
\* uploaded last
PartsAreKeyed ==
    [][StoresPart =>
          LET input == request'.input
              U == input.UploadId
              n == input.PartNumber
              body == toBuffer(input)
              parts == multipartUploads'[U].parts
              listed == ListPartsHandler(TheStore', input).response.Parts
              done == CompleteMultipartUploadHandler(TheStore',
                          [Bucket |-> input.Bucket, Key |-> input.Key, UploadId |-> U,
                           Parts |-> << [PartNumber |-> n, ETag |-> QuotedDigest(body)] >>],
                          now)
          IN  /\ parts[n].data = body
              /\ parts[n].size = Len(body)
              /\ parts[n].etag = QuotedDigest(body)
              /\ DOMAIN parts = DOMAIN multipartUploads[U].parts \cup {n}
              /\ \A m \in DOMAIN parts \ {n} : parts[m] = multipartUploads[U].parts[m]
              /\ \A V \in DOMAIN multipartUploads \ {U} :
                    multipartUploads'[V] = multipartUploads[V]
              /\ DOMAIN multipartUploads' = DOMAIN multipartUploads
              /\ objects' = objects
              /\ Len(listed) = Cardinality(DOMAIN parts)
              /\ {listed[i].PartNumber : i \in 1..Len(listed)} = DOMAIN parts
              /\ \E i \in 1..Len(listed) :
                    /\ listed[i].PartNumber = n
                    /\ listed[i].ETag = QuotedDigest(body)
                    /\ listed[i].Size = Len(body)
              /\ Succeeded(done.response)
              /\ getObject(done.s, multipartUploads[U].bucket, multipartUploads[U].key).body
                    = body]_vars

\* part 1 has been uploaded again with other bytes, beside part 2 and
\* another upload that has its own part 1
PartsAreKeyedWitness ==
    /\ request.op = "UploadPart"
    /\ Succeeded(response)
    /\ changed
    /\ request.input.UploadId = UploadId(1)
    /\ request.input.PartNumber = 1
    /\ DOMAIN multipartUploads = UploadIds
    /\ DOMAIN multipartUploads[UploadId(1)].parts = {1, 2}
    /\ multipartUploads[UploadId(1)].parts[1].data = <<98, 98>>
    /\ 1 \in DOMAIN multipartUploads[UploadId(2)].parts
    /\ multipartUploads[UploadId(2)].parts[1].data = <<97>>


(***************************************************************************)
(* Every way an object is written or changed: put, copy, completion of a   *)
(* multipart upload, tagging, and deletion                                 *)
(***************************************************************************)
NextObject ==
    \/ \E input \in {SlotA @@ Described, SlotA @@ Plain} : PutObject(input)
    \/ \E input \in CopyInputs : CopyObject(input)
    \/ \E input \in InitiateInputs : CreateMultipartUpload(input)
    \/ \E input \in PartInputs : UploadPart(input)
    \/ \E input \in CompleteInputs : CompleteMultipartUpload(input)
    \/ \E input \in TaggingInputs \cup {SlotB @@ [Tagging |-> [TagSet |-> "[env=dev]"]]} :
          PutObjectTagging(input)
    \/ \E input \in {SlotA, SlotB} : DeleteObjectTagging(input)
    \/ \E input \in {SlotA, SlotB} : DeleteObject(input)
    \/ \E input \in {[Bucket |-> "y", Key |-> "a"] @@ Plain} : PutObject(input)
    \/ \E input \in {SlotA} : GetObject(input)
    \/ \E input \in {SlotB} : HeadObject(input)
    \/ \E input \in {SlotA} : GetObjectAttributes(input)
    \/ \E input \in {[Bucket |-> "x"]} : ListObjectsV2(input)
    \/ \E input \in {[Bucket |-> "x"]} : ListObjects(input)
    \/ \E input \in UploadInputs : ListParts(input)
    \/ \E input \in {[Bucket |-> "x"]} : ListMultipartUploads(input)
    \/ \E command \in {"GetBucketPolicy", "GetBucketAcl"} :
          BucketConfiguration(command, [Bucket |-> "x"])

SpecObject == Init /\ [][NextObject]_vars

\* C30: in every state every stored object has the length of its body as
\* its contentLength, the quoted digest of its body as its ETag, and the key
\* it is stored under as its key, after any sequence of put, copy, multipart
\* completion, tagging and deletion
ObjectsAreConsistent ==
    \A b \in DOMAIN objects : \A k \in DOMAIN objects[b] :
        LET object == objects[b][k]
        IN  /\ object.contentLength = Len(object.body)
            /\ object.etag = QuotedDigest(object.body)
            /\ object.key = k

\* a copy and a completed upload have each been stored and then tagged or
\* untagged
ObjectsAreConsistentWitness ==
    /\ request.op = "DeleteObjectTagging"
    /\ Succeeded(response)
    /\ changed
    /\ objectExists(TheStore, "x", "a")
    /\ objectExists(TheStore, "x", "b")
    /\ objects["x"]["b"].body = <<97, 98>>
    /\ objects["x"]["a"].tags = "[env=dev]"
    /\ WrittenBy(<<"x", "b">>) \in {"CopyObject", "CompleteMultipartUpload"}


(***************************************************************************)
(* SpecDispatch: commands sent through the client, with and without a      *)
(* behaviour set by the user.  SelectObjectContent has no default handler. *)
(***************************************************************************)
CustomOutput == Ok([ETag |-> "\"custom-etag\""])
FirstOutput == Ok([ETag |-> "\"first\""])
CustomError == GenericError("Custom error")

SentCommands ==
    {<<"PutObject", SlotA @@ Plain>>, <<"GetObject", SlotA>>,
     <<"SelectObjectContent", SlotA>>}
MockedCommands == {"PutObject", "SelectObjectContent"}

NextDispatch ==
    \/ \E sent \in SentCommands : handleCommand(sent[1], sent[2])
    \/ \E command \in MockedCommands : Resolves(command, CustomOutput)
    \/ \E resp \in {FirstOutput, CustomOutput} : ResolvesOnce("PutObject", resp)
    \/ \E command \in {"GetObject"} : Rejects(command, CustomError)
    \/ \E handler \in {"etagFor", "failing"} : CallsFake("GetObject", handler)
    \/ Reset

SpecDispatch == Init /\ [][NextDispatch]_vars

\* the step sends a command: one more call is in the history
Sends == Len(calls') = Len(calls) + 1

\* what the behaviour set for a command answers with
Overrides(behavior, input, resp) ==
    \/ Has(behavior, "error") /\ resp = behavior.error
    \/ Has(behavior, "handler") /\ resp = FakeHandler(behavior.handler, input)
    \/ Has(behavior, "response") /\ resp = behavior.response
    \/ /\ Has(behavior, "responses")
       /\ \E i \in 1..Len(behavior.responses) :
             /\ resp = behavior.responses[i]
             /\ \/ i = behavior.callCount + 1
                \/ i = Len(behavior.responses) /\ behavior.callCount >= i

NotConfigured(command) ==
    GenericError("No mock behavior configured for " \o command \o "Command"
                 \o ". Either configure a mock with mockClient.on(" \o command
                 \o "Command).resolves(...) or register a default handler.")

\* C26: when a command is sent and the user has set a behaviour for it, the
\* behaviour decides the outcome and the store is left as it was; with no
\* behaviour set, the outcome and the store are those of the default handler
\* of the command; with neither, the send is refused with the error 'No mock
\* behavior configured ...' and the store is left as it was
DispatchPrecedence ==
    [][Sends =>
          LET command == request'.op
              input == request'.input
          IN  IF command \in DOMAIN commandHandlers
              THEN /\ Overrides(commandHandlers[command], input, response')
                   /\ TheStore' = TheStore
              ELSE IF command \in defaultHandlers
              THEN LET r == defaultHandler(command, TheStore, input, now)
                   IN  /\ response' = r.response
                       /\ TheStore' = r.s
              ELSE /\ response' = NotConfigured(command)
                   /\ TheStore' = TheStore]_vars

\* a PutObject answered by the response the user set, nothing stored, after a
\* PutObject that the default handler stored
DispatchPrecedenceWitness ==
    /\ request.op = "PutObject"
    /\ response = CustomOutput
    /\ ~changed
    /\ Len(calls) = 2
    /\ objectExists(TheStore, "x", "a")
    /\ "PutObject" \in DOMAIN commandHandlers
    /\ commandHandlers["PutObject"].callCount = 1


\* the CommandCall of the command a step sends
CallOf(req, t) ==
    [commandName |-> req.op \o "Command", input |-> req.input, timestamp |-> t]

\* the step counts one more use of the behaviour set for a command
Counted(command) ==
    /\ command \in DOMAIN commandHandlers
    /\ command \in DOMAIN commandHandlers'
    /\ commandHandlers'[command].callCount = commandHandlers[command].callCount + 1

\* the step shows a command being sent: a new request or outcome, a change of
\* the store, or one more use of a behaviour
Answers ==
    /\ request'.op # "reset"
    /\ \/ request' # request
       \/ response' # response
       \/ TheStore' # TheStore
       \/ Counted(request'.op)

\* C27: every command sent is appended to the call history once, at its end,
\* whether the send succeeds, is answered by a behaviour or fails, and nothing
\* else is ever appended; commandCalls(C) gains that call when the command is
\* of type C and is unchanged otherwise, and allCalls() gains it
CallsAreTracked ==
    [][/\ Answers => calls' = Append(calls, CallOf(request', now))
       /\ \/ calls' = calls
          \/ calls' = << >> /\ request'.op = "reset"
          \/ calls' = Append(calls, CallOf(request', now))
       /\ Sends =>
             /\ allCalls' = Append(allCalls, CallOf(request', now))
             /\ \A sent \in SentCommands :
                   commandCalls(sent[1])' =
                      IF sent[1] = request'.op
                      THEN Append(commandCalls(sent[1]), CallOf(request', now))
                      ELSE commandCalls(sent[1])]_vars

\* three calls are in the history: one the default handler answered, one a
\* behaviour rejected, one that was refused
CallsAreTrackedWitness ==
    /\ Len(calls) = 3
    /\ calls[1].commandName = "PutObjectCommand"
    /\ objectExists(TheStore, "x", "a")
    /\ calls[2].commandName = "GetObjectCommand"
    /\ "GetObject" \in DOMAIN commandHandlers
    /\ Has(commandHandlers["GetObject"], "error")
    /\ commandHandlers["GetObject"].callCount = 1
    /\ calls[3].commandName = "SelectObjectContentCommand"
    /\ response = NotConfigured("SelectObjectContent")
    /\ Len(commandCalls("PutObject")) = 1
    /\ allCalls = calls


(***************************************************************************)
(* SpecStream: requests whose bodies are streams, draining side by side,   *)
(* with reads, deletes and the start and the abort of an upload in between *)
(***************************************************************************)
StreamA ==
    SlotA @@ [Body |-> [type |-> "Readable",
                        chunks |-> << [type |-> "string", text |-> "a"],
                                      [type |-> "Buffer", bytes |-> <<98>>] >>],
              ContentType |-> "text/plain", Metadata |-> "m1"]
StreamB ==
    SlotA @@ [Body |-> [type |-> "Readable",
                        chunks |-> << [type |-> "Buffer", bytes |-> <<99>>] >>]]
StreamPart ==
    SlotB @@ [UploadId |-> UploadId(1), PartNumber |-> 1,
              Body |-> [type |-> "Readable",
                        chunks |-> << [type |-> "Buffer", bytes |-> <<97>>],
                                      [type |-> "string", text |-> "b"] >>]]
Invocations == 1..MaxDraining

NextStream ==
    \/ \E input \in {StreamA, StreamB} : BeginDraining("PutObject", input)
    \/ \E input \in {StreamPart} : BeginDraining("UploadPart", input)
    \/ \E id \in Invocations : Drain(id)
    \/ \E id \in Invocations : FinishDraining(id)
    \/ \E input \in {SlotA} : GetObject(input)
    \/ \E input \in {SlotA} : DeleteObject(input)
    \/ \E input \in {SlotB} : CreateMultipartUpload(input)
    \/ \E input \in UploadInputs : AbortMultipartUpload(input)

SpecStream == Init /\ [][NextStream]_vars

\* the step ends the draining of an invocation
Finishes(id) == id \in DOMAIN draining /\ id \notin DOMAIN draining'

\* the step starts a draining or reads one more chunk
StillDraining == draining' # draining /\ \A id \in Invocations : ~Finishes(id)

\* what a GetObject of an address returns of the object: body, type, metadata
Observed(a) ==
    LET got == GetObjectHandler(TheStore, a).response
    IN  IF Succeeded(got)
        THEN [body |-> got.Body, contentType |-> got.ContentType,
              metadata |-> got.Metadata]
        ELSE [error |-> got.name]

\* the whole object of a PutObject request
WholeOf(input) ==
    [body |-> toBuffer(input), contentType |-> Prop(input, "ContentType"),
     metadata |-> Prop(input, "Metadata")]

\* C23: PutObject requests with streamed bodies to one key take effect in
\* the order in which they finish draining: when one finishes, the object
\* stored is its whole body with its own description, whatever the others have
\* read by then; while requests drain the object a read returns does not
\* change; and a read returns the whole object of the last request to finish
StreamsSerialize ==
    [][/\ \A id \in Invocations :
             Finishes(id) /\ draining[id].op = "PutObject" =>
                \A a \in Addresses :
                   Slot(a) = Slot(draining[id].input) =>
                      Observed(a)' = WholeOf(draining[id].input)
       /\ StillDraining => Observed(SlotA)' = Observed(SlotA)
       /\ request'.op = "GetObject" /\ Succeeded(response') =>
             /\ Slot(request'.input) \in DOMAIN lastWrite'
             /\ response'.Body = lastWrite'[Slot(request'.input)].body
             /\ response'.ContentType = lastWrite'[Slot(request'.input)].contentType
             /\ response'.Metadata = lastWrite'[Slot(request'.input)].metadata]_vars

\* a read between two requests: the one that began first has finished and
\* its object is read whole, the other has read one chunk of two
StreamsSerializeWitness ==
    /\ DOMAIN draining = {2}
    /\ draining[2].input = StreamA
    /\ Len(draining[2].chunks) = 1
    /\ request.op = "GetObject"
    /\ Succeeded(response)
    /\ response.Body = <<99>>
    /\ lastWrite[<<"x", "a">>].body = <<99>>

\* C24: while a PutObject or an UploadPart drains its body, from the start
\* of its handler to the last chunk, the store is as it was, the bucket not
\* created; when the draining ends, the store becomes in that one step what
\* the handler makes of it with the whole body
DrainingIsApart ==
    [][/\ StillDraining => TheStore' = TheStore
       /\ \A id \in Invocations :
             Finishes(id) =>
                /\ TheStore' = AfterDraining(draining[id].op, TheStore, draining[id].input,
                                             toBuffer(draining[id].input), now).s
                /\ draining' = MapDelete(draining, id)]_vars

\* a PutObject has read its whole body and an UploadPart a chunk of its own,
\* and neither object nor part is there
DrainingIsApartWitness ==
    /\ DOMAIN draining = {1, 2}
    /\ draining[1].op = "PutObject"
    /\ Len(draining[1].chunks) = 2
    /\ draining[2].op = "UploadPart"
    /\ Len(draining[2].chunks) = 1
    /\ ObjectSlots(TheStore) = {}
    /\ multipartUploads[UploadId(1)].parts = << >>


\* the token a listing returns for its next page
NextTokenOf(req, resp) ==
    IF req.op = "ListObjectsV2" THEN resp.NextContinuationToken ELSE resp.NextMarker

\* C31: a listing that reports IsTruncated returns a next token, which is
\* the key of the last object of the page; a listing that is not truncated
\* returns no token; for every MaxKeys, 0 included
TruncationHasToken ==
    IsListing(request) /\ Succeeded(response)
    => IF response.IsTruncated
       THEN /\ Len(response.Contents) > 0
            /\ NextTokenOf(request, response) = response.Contents[Len(response.Contents)]
       ELSE NextTokenOf(request, response) = undefined


\* the pages a caller may ask for before it gives up
MaxPages == 4

\* a caller lists page after page, passing each token on: the keys of the
\* pages in a row, and whether the listing ended within MaxPages pages
RECURSIVE Traverse(_, _, _, _)
Traverse(s, input, keys, pages) ==
    LET resp == ListObjectsV2Handler(s, input).response
        token == resp.NextContinuationToken
    IN  IF ~resp.IsTruncated
        THEN [ended |-> TRUE, keys |-> keys \o resp.Contents]
        ELSE IF pages = 1 \/ token = undefined
        THEN [ended |-> FALSE, keys |-> keys \o resp.Contents]
        ELSE Traverse(s, [k \in DOMAIN input \cup {"ContinuationToken"} |->
                             IF k = "ContinuationToken" THEN token ELSE input[k]],
                      keys \o resp.Contents, pages - 1)

\* C32: for every set of keys in a bucket, upper and lower case mixed, every
\* prefix and every MaxKeys >= 1, listing page after page ends with a page
\* that is not truncated, and the pages in a row are the keys that start
\* with the prefix, each once, in the order of the listing
FullTraversal ==
    bucketExists(TheStore, "x") =>
       \A p \in Optional("Prefix", {"a"}) : \A m \in {1, 2} :
          LET input == ListBucket @@ p @@ [MaxKeys |-> m]
              walk == Traverse(TheStore, input, << >>, MaxPages)
          IN  /\ walk.ended
              /\ walk.keys = sortLocale(Matches([op |-> "ListObjectsV2", input |-> input]))


\* C33: in every state the buckets and the object maps have the same names:
\* every bucket has an object map, every stored object is in a bucket that
\* exists, and a bucket that has just been deleted holds no object
NoOrphanedObjects ==
    /\ DOMAIN objects = DOMAIN buckets
    /\ \A slot \in ObjectSlots(TheStore) : bucketExists(TheStore, slot[1])
    /\ request.op = "DeleteBucket" /\ Succeeded(response) =>
          /\ request.input.Bucket \notin DOMAIN objects
          /\ \A slot \in ObjectSlots(TheStore) : slot[1] # request.input.Bucket

\* bucket x, which a write had made, has been deleted once it was empty:
\* neither the bucket nor an object map of its name is left
NoOrphanedObjectsWitness ==
    /\ request.op = "DeleteBucket"
    /\ request.input.Bucket = "x"
    /\ Succeeded(response)
    /\ changed
    /\ ~bucketExists(TheStore, "x")
    /\ "x" \notin DOMAIN objects


\* C34: in every state every multipart upload in progress names a bucket
\* that exists: a bucket is not deleted from under its uploads, so that the
\* completion of an upload never makes a deleted bucket again
UploadsHaveBuckets ==
    \A uploadId \in DOMAIN multipartUploads :
        bucketExists(TheStore, multipartUploads[uploadId].bucket)


UploadCommands ==
    {"CompleteMultipartUpload", "UploadPart", "ListParts", "AbortMultipartUpload"}

\* C35: a CompleteMultipartUpload, UploadPart, ListParts or
\* AbortMultipartUpload that succeeds acts on an upload that was initiated
\* for the Bucket and the Key the request names, and the Bucket and Key of a
\* CompleteMultipartUpload response are where the completed object is stored
UploadIsAddressed ==
    [][request'.op \in UploadCommands /\ Succeeded(response') =>
          /\ request'.input.UploadId \in DOMAIN multipartUploads
          /\ multipartUploads[request'.input.UploadId].bucket = request'.input.Bucket
          /\ multipartUploads[request'.input.UploadId].key = request'.input.Key
          /\ request'.op = "CompleteMultipartUpload" =>
                /\ objectExists(TheStore', response'.Bucket, response'.Key)
                /\ objects'[response'.Bucket][response'.Key].etag = response'.ETag]_vars


\* C36: an UploadPart that streams its body, whatever aborts or completions
\* of its upload run while it drains, ends either with its part stored in
\* the upload, which is still in progress, or with the structured error
\* NoSuchUpload (404), the uploads left as they were; it never ends with an
\* error of the store as such nor brings back an upload that has ended
StreamedPartOutcome ==
    [][\A id \in Invocations :
          Finishes(id) /\ draining[id].op = "UploadPart" =>
             LET uploadId == draining[id].input.UploadId
                 partNumber == draining[id].input.PartNumber
             IN  IF uploadId \in DOMAIN multipartUploads
                 THEN /\ Succeeded(response')
                      /\ uploadId \in DOMAIN multipartUploads'
                      /\ partNumber \in DOMAIN multipartUploads'[uploadId].parts
                      /\ multipartUploads'[uploadId].parts[partNumber].data
                            = toBuffer(draining[id].input)
                 ELSE /\ response'.kind = "AwsError"
                      /\ response'.name = "NoSuchUpload"
                      /\ response'.httpStatusCode = 404
                      /\ multipartUploads' = multipartUploads]_vars


ObjectWrites ==
    {"PutObject", "DeleteObject", "CopyObject", "PutObjectTagging", "DeleteObjectTagging"}
ObjectReads ==
    {"GetObject", "HeadObject", "ListObjects", "ListObjectsV2", "GetObjectAttributes",
     "ListParts", "ListMultipartUploads", "GetBucketPolicy", "GetBucketAcl"}

\* C37: a PutObject, DeleteObject, CopyObject or object tagging command on
\* (B,K) changes at most the object at (B,K), and makes bucket B when a
\* write finds none: every other object of every bucket, every bucket that
\* existed, and every upload with its parts are as they were; the commands
\* that read change nothing
ObjectFrame ==
    [][/\ request'.op \in ObjectWrites =>
             LET target == <<Prop(request'.input, "Bucket"), Prop(request'.input, "Key")>>
             IN  /\ \A slot \in (ObjectSlots(TheStore) \cup ObjectSlots(TheStore')) \ {target} :
                       /\ slot \in ObjectSlots(TheStore) \cap ObjectSlots(TheStore')
                       /\ objects'[slot[1]][slot[2]] = objects[slot[1]][slot[2]]
                 /\ \A b \in DOMAIN buckets :
                       b \in DOMAIN buckets' /\ buckets'[b] = buckets[b]
                 /\ DOMAIN buckets' \subseteq DOMAIN buckets \cup {target[1]}
                 /\ (request'.op \notin {"PutObject", "CopyObject"}
                        => DOMAIN buckets' = DOMAIN buckets)
                 /\ multipartUploads' = multipartUploads
                 /\ uuidCount' = uuidCount
       /\ request'.op \in ObjectReads => TheStore' = TheStore]_vars

\* the object at x/a has been deleted: the objects at x/b and y/a and the
\* upload with its part are still there
ObjectFrameWitness ==
    /\ request.op = "DeleteObject"
    /\ request.input = SlotA
    /\ changed
    /\ ObjectSlots(TheStore) = {<<"x", "b">>, <<"y", "a">>}
    /\ DOMAIN multipartUploads # {}
    /\ \E u \in DOMAIN multipartUploads : DOMAIN multipartUploads[u].parts # {}


\* the answers of GetObject and of HeadObject to one request say the same
Agree(got, head) ==
    IF Succeeded(got)
    THEN /\ Succeeded(head)
         /\ head.httpStatusCode = got.httpStatusCode
         /\ ~Has(head, "Body")
         /\ got.httpStatusCode = 200 =>
               /\ head.ContentLength = got.ContentLength
               /\ head.ETag = got.ETag
               /\ head.LastModified = got.LastModified
               /\ head.Metadata = got.Metadata
    ELSE /\ head.kind = got.kind
         /\ head.httpStatusCode = got.httpStatusCode
         /\ head.httpStatusCode \in {404, 412}
         /\ \/ head.name = got.name
            \/ got.name = "NoSuchKey" /\ head.name = "NotFound"

\* C38: HeadObject and GetObject without Range agree in every state of the
\* store and on every combination of IfMatch, IfNoneMatch, IfModifiedSince
\* and IfUnmodifiedSince: both succeed with the same ContentLength, ETag,
\* LastModified and metadata, both answer 304, or both fail with the same
\* status, 404 or 412; Head has no body and names a missing key NotFound
HeadAgreesWithGet ==
    /\ request.op \in {"GetObject", "HeadObject"}
    /\ ~Has(request.input, "Range")
    => /\ Agree(GetObjectHandler(TheStore, request.input).response,
                HeadObjectHandler(TheStore, request.input).response)
       /\ request.op = "HeadObject" =>
             response = HeadObjectHandler(TheStore, request.input).response

\* a HeadObject whose two dates both fail: it answers 304 as GetObject does
HeadAgreesWithGetWitness ==
    /\ request.op = "HeadObject"
    /\ response = NotModified
    /\ Has(request.input, "IfUnmodifiedSince")
    /\ Has(request.input, "IfModifiedSince")
    /\ ~Has(request.input, "IfNoneMatch")
    /\ Found.lastModified > request.input.IfUnmodifiedSince


\* ---------------------------------------------------------------------------
\* resolvesOnce sequencing

\* the behaviour after on(C).resolvesOnce(FirstOutput).resolvesOnce(CustomOutput)
ChainOn(existing) == OnceMore(OnceMore(existing, FirstOutput), CustomOutput)

\* the behaviour as the k-th send of the command after that counts it
RECURSIVE SentTimes(_, _)
SentTimes(behavior, k) ==
    IF k = 0 THEN behavior ELSE Called(SentTimes(behavior, k - 1))

\* C40: after responses r1, r2 have been registered for a command with two
\* chained resolvesOnce calls, the first send of the command after them returns
\* r1, and the second and every later one r2, whatever had been sent or
\* registered for the command before (a response, an error, a handler or
\* nothing: the two calls are the whole chain)
ResolvesOnceSequencing ==
    \A command \in MockedCommands :
        LET existing == IF command \in DOMAIN commandHandlers
                        THEN commandHandlers[command] ELSE << >>
            chain == ChainOn(existing)
        IN  Has(existing, "responses") \/
            /\ \A k \in 1..MaxCalls : Decides(SentTimes(chain, k))
            /\ Outcome(SentTimes(chain, 1), << >>) = FirstOutput
            /\ \A k \in 2..MaxCalls : Outcome(SentTimes(chain, k), << >>) = CustomOutput


(***************************************************************************)
(* SpecInstall: the mock installed on a client, restored and reset while   *)
(* commands are sent and behaviours are set                                *)
(***************************************************************************)
NextInstall ==
    \/ \E client \in Clients : install(client)
    \/ restore
    \/ Reset
    \/ \E client \in Clients, sent \in SentCommands : Send(client, sent[1], sent[2])
    \/ \E client \in Clients, sent \in SentCommands :
          SendOriginal(client, sent[1], sent[2])
    \/ \E command \in MockedCommands : Resolves(command, CustomOutput)
    \/ Rejects("GetObject", CustomError)

SpecInstall == Init /\ [][NextInstall]_vars

AlreadyInstalled == GenericError("Mock is already installed. Call restore() first.")

\* C39: install while the mock is installed throws and changes nothing, and
\* otherwise makes the client's send the mock's; restore gives every client
\* its own send back and leaves the mock ready to be installed; reset clears
\* the behaviours set by the user and the call history, keeps the default
\* handlers and the installation, and a command sent through the mock that
\* has no behaviour set is answered by its default handler
InstallProtocol ==
    [][/\ \A client \in Clients :
             install(client) =>
                IF isInstalled
                THEN /\ response' = AlreadyInstalled
                     /\ UNCHANGED <<buckets, objects, multipartUploads, uuidCount, now,
                                    changed, lastWrite, replaced, handlers,
                                    commandHandlers, calls, draining, isInstalled,
                                    originalSend, clientInstance, send>>
                ELSE /\ response'.kind = "Output"
                     /\ isInstalled'
                     /\ send'[client] = "handleCommand"
                     /\ \A other \in Clients \ {client} : send'[other] = send[other]
       /\ restore =>
             /\ ~isInstalled'
             /\ \A client \in Clients : send'[client] = "send"
       /\ Reset =>
             /\ commandHandlers' = << >>
             /\ calls' = << >>
             /\ handlers' = handlers
             /\ UNCHANGED <<isInstalled, originalSend, clientInstance, send>>
       /\ \A client \in Clients, sent \in SentCommands :
             /\ Send(client, sent[1], sent[2])
             /\ sent[1] \notin DOMAIN commandHandlers
             /\ sent[1] \in handlers
             => response' = defaultHandler(sent[1], TheStore, sent[2], now).response
      ]_vars

InstallProtocolWitness ==
    /\ request = [op |-> "install", input |-> [client |-> "otherClient"]]
    /\ response = AlreadyInstalled
    /\ clientInstance = "s3Client"
    /\ send = [client \in Clients |->
                  IF client = "s3Client" THEN "handleCommand" ELSE "send"]
    /\ Len(calls) > 0
    /\ commandHandlers = << >>

====
